---- MODULE Spec2Model ----
(***************************************************************************)
(* Model of the self-healing incremental execution pipeline of spreadly:   *)
(*   - IncrementalExecutor (frontend/src/utils/edge-case-tester.ts): the   *)
(*     chunk orchestrator loop, its circuit breakers, stop() and the       *)
(*     per-chunk timeout race;                                             *)
(*   - executeExcelScriptCode / executeDirectExcel                         *)
(*     (frontend/src/taskpane/taskpane.ts): validate, correct, simulate,   *)
(*     execute.                                                            *)
(* Texts (chunk source, error messages) are strings; the string functions  *)
(* of the code (includes, toLowerCase, trim, substring, regex scans) are   *)
(* operators that compute on the characters.                               *)
(***************************************************************************)
EXTENDS Integers, Sequences, FiniteSets, TLC

(***************************************************************************)
(* Bounds of the model.                                                    *)
(***************************************************************************)
\* number of distinct chunk ids the external generator assigns
MaxChunkId == 1
\* number of timed-out executions that can still be running when another
\* execution times out
MaxAbandoned == 1

(***************************************************************************)
(* Program constants.                                                      *)
(***************************************************************************)
maxConsecutiveErrors == 3
maxTotalRetries == 10
PreviewLen == 500

(***************************************************************************)
(* String helpers: what String.prototype.includes / toLowerCase / trim /   *)
(* substring do.                                                           *)
(***************************************************************************)
Min(a, b) == IF a < b THEN a ELSE b
Max(a, b) == IF a > b THEN a ELSE b

\* the element of a set of one.  A text bound as  x \in {e}  is computed
\* once, however often x is read.
Only(S) == CHOOSE x \in S : TRUE

\* s.includes(p)
Includes(s, p) ==
    \E i \in 1..(Len(s) - Len(p) + 1) : SubSeq(s, i, i + Len(p) - 1) = p

\* s.substring(0, n)
Substring0(s, n) == SubSeq(s, 1, Min(n, Len(s)))

\* the i-th character of s
Ch(s, i) == SubSeq(s, i, i)

\* concatenation of the strings parts[lo], ..., parts[hi]
RECURSIVE Join(_, _, _)
Join(parts, lo, hi) ==
    IF lo > hi THEN ""
    ELSE IF lo = hi THEN parts[lo]
    ELSE LET mid == (lo + hi) \div 2
         IN  Join(parts, lo, mid) \o Join(parts, mid + 1, hi)

UpperChars == "ABCDEFGHIJKLMNOPQRSTUVWXYZ"
LowerChars == "abcdefghijklmnopqrstuvwxyz"

LowerChar(c) ==
    IF \E i \in 1..26 : Ch(UpperChars, i) = c
    THEN LET i == CHOOSE j \in 1..26 : Ch(UpperChars, j) = c
         IN  Ch(LowerChars, i)
    ELSE c

\* s.toLowerCase()
ToLowerCase(s) == Join([i \in 1..Len(s) |-> LowerChar(Ch(s, i))], 1, Len(s))

\* a character matched by \s
IsWs(c) == c \in {" ", "\n", "\t", "\r"}

\* s.trim()
Trim(s) ==
    LET keep == {i \in 1..Len(s) : ~IsWs(Ch(s, i))}
    IN  IF keep = {} THEN ""
        ELSE LET first == CHOOSE i \in keep : \A j \in keep : i <= j
                 last  == CHOOSE i \in keep : \A j \in keep : i >= j
             IN  SubSeq(s, first, last)

\* number of occurrences of the character c in s
CountChar(s, c) == Cardinality({i \in 1..Len(s) : Ch(s, i) = c})

\* s.replace(/\s+/g, ' ')
CollapseWs(s) ==
    Join([i \in 1..Len(s) |->
            IF IsWs(Ch(s, i))
            THEN (IF i > 1 /\ IsWs(Ch(s, i - 1)) THEN "" ELSE " ")
            ELSE Ch(s, i)], 1, Len(s))

\* s.replace(/;{2,}/g, ';')
CollapseSemis(s) ==
    Join([i \in 1..Len(s) |->
            IF Ch(s, i) = ";" /\ i > 1 /\ Ch(s, i - 1) = ";" THEN "" ELSE Ch(s, i)],
         1, Len(s))

\* s without the characters at the positions in drop
Without(s, drop) ==
    Join([i \in 1..Len(s) |-> IF i \in drop THEN "" ELSE Ch(s, i)], 1, Len(s))

\* s.endsWith(p)
EndsWith(s, p) == Len(s) >= Len(p) /\ SubSeq(s, Len(s) - Len(p) + 1, Len(s)) = p

\* s.startsWith(p)
StartsWith(s, p) == Len(s) >= Len(p) /\ SubSeq(s, 1, Len(p)) = p

\* index of the last "\n" of s, 0 when there is none
LastNewline(s) ==
    IF \E i \in 1..Len(s) : SubSeq(s, i, i) = "\n"
    THEN CHOOSE i \in 1..Len(s) :
            /\ SubSeq(s, i, i) = "\n"
            /\ \A j \in (i + 1)..Len(s) : SubSeq(s, j, j) # "\n"
    ELSE 0

\* n copies of p
RECURSIVE Repeat(_, _)
Repeat(p, n) == IF n <= 0 THEN "" ELSE p \o Repeat(p, n - 1)

(***************************************************************************)
(* IncrementalExecutor.validateAndCleanCode and fixTruncatedCode.          *)
(***************************************************************************)
\* The markdown code fence (three grave accents).  A TLA+ string cannot hold
\* a grave accent, so the fence is written with three apostrophes here.
Fence == "'''"

\* the fence begins at position p of s
FenceAt(s, p) == p >= 1 /\ p + 2 <= Len(s) /\ SubSeq(s, p, p + 2) = Fence

\* what /^FENCE(javascript|js)?\n?/ consumes when it matches at position p
OpenFenceLen(s, p) ==
    LET r1 == SubSeq(s, p + 3, Len(s))
        l1 == IF StartsWith(r1, "javascript") THEN 10
              ELSE IF StartsWith(r1, "js") THEN 2 ELSE 0
        r2 == SubSeq(r1, l1 + 1, Len(r1))
        l2 == IF StartsWith(r2, "\n") THEN 1 ELSE 0
    IN  3 + l1 + l2

\* s.replace(/^FENCE(javascript|js)?\n?/gm, ''): a match begins at every line
\* start that carries a fence
StripOpenFences(s) ==
    LET starts == {p \in 1..Len(s) : (p = 1 \/ Ch(s, p - 1) = "\n") /\ FenceAt(s, p)}
        drop   == UNION {p..(p + OpenFenceLen(s, p) - 1) : p \in starts}
    IN  Without(s, drop)

\* s.replace(/\n?FENCE$/gm, ''): a match is a fence that ends a line, with
\* the newline before it when there is one
StripCloseFences(s) ==
    LET ends == {p \in 1..Len(s) :
                    FenceAt(s, p) /\ (p + 2 = Len(s) \/ Ch(s, p + 3) = "\n")}
        drop == UNION {(IF p > 1 /\ Ch(s, p - 1) = "\n" THEN p - 1 ELSE p)..(p + 2) :
                          p \in ends}
    IN  Without(s, drop)

fixTruncatedCode(text) ==
    LET nl       == LastNewline(text)
        lastLine == Trim(SubSeq(text, nl + 1, Len(text)))
        drop     == \/ EndsWith(lastLine, "sheet.getRange(\"A3")
                    \/ EndsWith(lastLine, "sheet.getRange(")
                    \/ (Includes(lastLine, "getRange(") /\ ~Includes(lastLine, ")"))
        fixed1   == IF drop THEN SubSeq(text, 1, nl - 1) ELSE text
        open     == CountChar(fixed1, "{")
        close    == CountChar(fixed1, "}")
        fixed2   == IF Includes(fixed1, "Excel.run(async (context) => {") /\ open > close
                    THEN (IF Includes(fixed1, "await context.sync()") THEN fixed1
                          ELSE fixed1 \o "\n    await context.sync();")
                         \o Repeat("\n}", open - close)
                    ELSE fixed1
    IN  Trim(fixed2)

validateAndCleanCode(text) ==
    LET c1 == Trim(text)
        c2 == StripOpenFences(c1)
        c3 == StripCloseFences(c2)
        c4 == CollapseSemis(c3)
        c5 == CollapseWs(c4)
        c6 == Trim(c5)
    IN  fixTruncatedCode(c6)

(***************************************************************************)
(* IncrementalExecutor.isPersistentError.                                  *)
(***************************************************************************)
persistentPatterns ==
    { "Excel API not available",
      "context is undefined",
      "Excel is not defined",
      "Office.js not loaded",
      "Permission denied",
      "Network error",
      "Rate limit exceeded",
      "Service unavailable" }

isPersistentError_caseOfMessageOnly(errorMessage) ==
    IF errorMessage = "" THEN FALSE
    ELSE LET errorLower == ToLowerCase(errorMessage)
         IN  \E pattern \in persistentPatterns : Includes(errorLower, pattern)

isPersistentError(errorMessage) ==
    IF errorMessage = "" THEN FALSE
    ELSE LET errorLower == ToLowerCase(errorMessage)
         IN  \E pattern \in persistentPatterns :
                Includes(errorLower, ToLowerCase(pattern))

(***************************************************************************)
(* The error_message of a failed ExecutionResult: JSON.stringify of the    *)
(* error details, which carry String(error) and the first 500 characters   *)
(* of the chunk's code (executeChunkWithTimeout, catch block).             *)
(***************************************************************************)
ErrorDetails(error, chunk) ==
    "{message:" \o error \o ",code_preview:" \o Substring0(chunk.code, PreviewLen) \o "}"

(***************************************************************************)
(* Inputs of the orchestrator: what the generator, the real target and the *)
(* backend can answer.                                                     *)
(***************************************************************************)
\* chunk ids and sources the generator can produce
ChunkIds == 1..MaxChunkId

ChunkCodes ==
    { "s.getRange(\"A1\").values = [[1]];",
      "// on Network error: skip\ns.getRange(\"A1\").values = [[1]];",
      " \n " }

\* String(error) of what a real execution can throw
ExecErrors ==
    { "Error: Excel API not available. Make sure this code runs in Excel context.",
      "Error: rate limited",
      "Error: Rate limit exceeded" }

TimeoutError == "Error: Execution timeout"
EmptyCodeError == "Error: Generated code is empty or invalid"

AllErrors == ExecErrors \cup {TimeoutError, EmptyCodeError}

NoChunk == [id |-> 0, code |-> ""]
NoResult == [chunk_id |-> 0, success |-> FALSE, error_message |-> ""]
\* lastResult = null: no chunk is reported
NoLastResult == [chunk_id |-> 0, success |-> FALSE]

\* The values of the string functions on the inputs above, computed once.
CleanedCode == [text \in ChunkCodes |-> validateAndCleanCode(text)]
ErrorMessage == [error \in AllErrors, text \in ChunkCodes |->
                    ErrorDetails(error, [id |-> 0, code |-> text])]
PersistentMessage == [error \in AllErrors, text \in ChunkCodes |->
                        isPersistentError(ErrorMessage[error, text])]

(***************************************************************************)
(* State of one IncrementalExecutor session.                               *)
(***************************************************************************)
VARIABLES
    pc,                 \* position of startIncrementalBuild / executeIncrementalLoop
    isExecuting,        \* this.isExecuting
    consecutiveErrors,  \* let consecutiveErrors
    totalRetries,       \* let totalRetries
    currentChunk,       \* this.currentChunk
    execResult,         \* const execResult of the current iteration
    lastResult,         \* let lastResult of the current iteration
    result,             \* value returned by startIncrementalBuild: "none", TRUE, FALSE
    running,            \* executeChunk invocations started and not yet settled
    \* history variables (not program state)
    stopCalled,         \* stop() was called
    allFailed,          \* no real execution has succeeded so far
    failRun,            \* failed real executions so far while none has succeeded
    ordRun,             \* ordinary failures in a row, none followed by an auto-fix retry
    afterPersistent,    \* the current chunk failed with a persistent signature
    consecBefore,       \* consecutiveErrors when the current attempt started
    endedBy,            \* why the loop returned
    updatedPending,     \* an updated chunk was obtained and no execution has started since
    \* one call of executeExcelScriptCode (taskpane.ts)
    version,            \* which of the two definitions in taskpane.ts is in effect
    ppc,                \* position of the call
    code,               \* the parameter code, reassigned by the corrections
    mockError,          \* mockTestResult.errors[0], "" when the mock test passed
    failures,           \* FailurePatternDatabase.failures.length
    successes,          \* FailurePatternDatabase.successes.length
    answer,             \* what the call returns
    \* history variables (not program state)
    original,           \* the text the call was given
    attempts,           \* the real executions attempted, in order
    \* the validator and the corrector applied to one text (taskpane.ts)
    source,             \* the text given
    texts,              \* the text given and what each pass of the corrector made of it
    reports,            \* the validation report of each of the texts, once made
    \* calls of testCodeInMockEnvironmentSimple (taskpane.ts)
    sims,               \* each call: its chunk, its position, what it returned
    operations,         \* the operations arrays
    \* history variable (not program state)
    made,               \* the property sets the chunk of each call has made
    \* FailurePatternDatabase (taskpane.ts)
    failureLog,         \* static failures
    successLog,         \* static successes
    \* history variable (not program state)
    recorded,           \* how many records each of the two lists was given so far
    \* SimpleScriptLabEngine / ScriptLabEngine (scriptlab)
    executionFrame,     \* this.executionFrame: the call whose iframe it is, 0 for null
    calls,              \* each executeCode call: its promise and its timer
    listeners,          \* the window's 'message' listeners, in order of registration
    attached,           \* the calls whose iframe is in the document
    \* one call of SequentialExecutionEngine.executeOperations
    continueOnError,    \* this.config.continueOnError
    input,              \* the parameter operations
    spc,                \* position of the call
    stage,              \* let stage of the outer loop
    stageOperations,    \* the operations of the stage not yet taken, by index in input
    operation,          \* the operation executeOperation was given, by index; 0 for none
    retryCount,         \* let retryCount of executeOperation
    results,            \* this.results
    \* history variables (not program state)
    runs,               \* the calls of runOperationCode, in order, with their outcome
    abandoned           \* the operations an eval of which lost its race and still runs

orchVars ==
    << pc, isExecuting, consecutiveErrors, totalRetries, currentChunk, execResult,
       lastResult, result, running, stopCalled, allFailed, failRun, ordRun,
       afterPersistent, consecBefore, endedBy, updatedPending >>

pipeVars ==
    << version, ppc, code, mockError, failures, successes, answer, original,
       attempts >>

corrVars == << source, texts, reports >>

ledgerVars == << failureLog, successLog, recorded >>

simVars == << sims, operations, made >>

engineVars == << executionFrame, calls, listeners, attached >>

seqVars ==
    << continueOnError, input, spc, stage, stageOperations, operation, retryCount,
       results, runs, abandoned >>

extVars == << engineVars, seqVars >>

unitVars == << corrVars, ledgerVars, simVars, extVars >>

vars == << orchVars, pipeVars, unitVars >>

\* the validator and the corrector are applied to no text
CorrIdle ==
    /\ source = ""
    /\ texts = << >>
    /\ reports = << >>

\* the ledger as the class is loaded: both lists empty
LedgerIdle ==
    /\ failureLog = << >>
    /\ successLog = << >>
    /\ recorded = [failures |-> 0, successes |-> 0]

\* number of calls of testCodeInMockEnvironmentSimple
MaxSims == 2

SimIds == 1..MaxSims

NoSim == [status |-> "idle", chunk |-> << >>, next |-> 0, success |-> FALSE,
          error |-> ""]

\* no mock test was started
SimIdle ==
    /\ sims = [c \in SimIds |-> NoSim]
    /\ operations = [c \in SimIds |-> << >>]
    /\ made = [c \in SimIds |-> << >>]

\* number of executeCode calls on one engine instance
MaxCalls == 3

CallIds == 1..MaxCalls

NoCall == [status |-> "idle", timer |-> FALSE, kind |-> "", from |-> 0]

\* the engine as constructed: no frame, no call made
EngineIdle ==
    /\ executionFrame = 0
    /\ calls = [c \in CallIds |-> NoCall]
    /\ listeners = << >>
    /\ attached = {}

\* executeOperations was not called
SeqIdle ==
    /\ continueOnError = TRUE
    /\ input = << >>
    /\ spc = "idle"
    /\ stage = 0
    /\ stageOperations = << >>
    /\ operation = 0
    /\ retryCount = 0
    /\ results = << >>
    /\ runs = << >>
    /\ abandoned = {}

ExtIdle == EngineIdle /\ SeqIdle

UnitIdle == CorrIdle /\ LedgerIdle /\ SimIdle /\ ExtIdle

\* no call of executeExcelScriptCode is under way
PipeIdle ==
    /\ version = "first"
    /\ ppc = "idle"
    /\ code = ""
    /\ mockError = ""
    /\ failures = 0
    /\ successes = 0
    /\ answer = "none"
    /\ original = ""
    /\ attempts = << >>

\* no session of the IncrementalExecutor was started
OrchIdle ==
    /\ pc = "init"
    /\ isExecuting = FALSE
    /\ consecutiveErrors = 0
    /\ totalRetries = 0
    /\ currentChunk = NoChunk
    /\ execResult = NoResult
    /\ lastResult = NoLastResult
    /\ result = "none"
    /\ running = 0
    /\ stopCalled = FALSE
    /\ allFailed = TRUE
    /\ failRun = 0
    /\ ordRun = 0
    /\ afterPersistent = FALSE
    /\ consecBefore = 0
    /\ endedBy = "none"
    /\ updatedPending = FALSE

Init == OrchIdle /\ PipeIdle /\ UnitIdle

(***************************************************************************)
(* Conditions and small steps of executeIncrementalLoop.                   *)
(***************************************************************************)
\* while (this.isExecuting)
LoopCondition_ignoresFlag(flag) == TRUE
LoopCondition(flag) == flag

\* if (totalRetries >= maxTotalRetries) at the top of the iteration
TotalLimitReached_offByOne(t) == t > maxTotalRetries
TotalLimitReached(t) == t >= maxTotalRetries

\* if (consecutiveErrors >= maxConsecutiveErrors) after error handling
ConsecutiveLimitReached_offByOne(c) == c > maxConsecutiveErrors
ConsecutiveLimitReached(c) == c >= maxConsecutiveErrors

\* totalRetries after a successful execution
TotalAfterSuccess(t) == 0

\* where the loop goes after a failure was counted: the persistent branch
\* waits and continues, the other one backs off and asks for error handling
AfterFailurePc_noSkip(persistent) == "backoff"
AfterFailurePc(persistent) == IF persistent THEN "persistDelay" ELSE "backoff"

\* consecutiveErrors after a failure was counted
ConsecutiveAfterFailure(c, persistent) == IF persistent THEN 0 ELSE c + 1

Return(value, why) ==
    /\ pc' = "done"
    /\ result' = value
    /\ endedBy' = why

\* the catch block counting on totalRetries alone
CatchBlock_countsTotalOnly ==
    /\ UNCHANGED consecutiveErrors
    /\ totalRetries' = totalRetries + 1
    /\ IF totalRetries + 1 >= maxTotalRetries
       THEN Return(FALSE, "catch")
       ELSE pc' = "catchDelay" /\ UNCHANGED << result, endedBy >>

\* catch (error) of the loop body
CatchBlock ==
    /\ consecutiveErrors' = consecutiveErrors + 1
    /\ totalRetries' = totalRetries + 1
    /\ IF \/ consecutiveErrors + 1 >= maxConsecutiveErrors
          \/ totalRetries + 1 >= maxTotalRetries
       THEN Return(FALSE, "catch")
       ELSE pc' = "catchDelay" /\ UNCHANGED << result, endedBy >>

\* the else branch of if (execResult.success), up to its first await
FailureStep(error, real, chunk) ==
    LET message    == ErrorMessage[error, chunk.code]
        persistent == PersistentMessage[error, chunk.code]
    IN  /\ execResult' = [chunk_id |-> chunk.id, success |-> FALSE,
                          error_message |-> message]
        /\ consecutiveErrors' = ConsecutiveAfterFailure(consecutiveErrors, persistent)
        /\ totalRetries' = totalRetries + 1
        /\ pc' = AfterFailurePc(persistent)
        /\ afterPersistent' = persistent
        /\ failRun' = IF real /\ allFailed THEN failRun + 1 ELSE failRun
        /\ ordRun' = IF persistent THEN 0 ELSE IF real THEN ordRun + 1 ELSE ordRun

\* the code after error handling when the chunk is not retried
NoRetry ==
    IF ConsecutiveLimitReached(consecutiveErrors)
    THEN Return(FALSE, "consecutive")
    ELSE pc' = "interDelay" /\ UNCHANGED << result, endedBy >>

(***************************************************************************)
(* startIncrementalBuild.                                                  *)
(***************************************************************************)
\* the workbook read or the /start request fails: catch, return false
InitFails ==
    /\ UNCHANGED << pipeVars, unitVars >>
    /\ UNCHANGED updatedPending
    /\ UNCHANGED lastResult
    /\ pc = "init"
    /\ Return(FALSE, "initfail")
    /\ UNCHANGED << isExecuting, consecutiveErrors, totalRetries, currentChunk,
                    execResult, running, stopCalled, allFailed,
                    failRun, ordRun, afterPersistent, consecBefore >>

\* the session is initialised: this.isExecuting = true, enter the loop
InitSucceeds ==
    /\ UNCHANGED << pipeVars, unitVars >>
    /\ UNCHANGED updatedPending
    /\ UNCHANGED lastResult
    /\ pc = "init"
    /\ isExecuting' = TRUE
    /\ pc' = "top"
    /\ UNCHANGED << consecutiveErrors, totalRetries, currentChunk, execResult, result,
                    running, stopCalled, allFailed, failRun, ordRun,
                    afterPersistent, consecBefore, endedBy >>

(***************************************************************************)
(* executeIncrementalLoop.                                                 *)
(***************************************************************************)
\* loop condition, circuit breaker, call of getComprehensiveWorkbookData
LoopTop ==
    /\ UNCHANGED << pipeVars, unitVars >>
    /\ UNCHANGED updatedPending
    /\ UNCHANGED lastResult
    /\ pc = "top"
    /\ IF ~LoopCondition(isExecuting)
       THEN Return(FALSE, "stopped") /\ UNCHANGED execResult
       ELSE IF TotalLimitReached(totalRetries)
            THEN Return(FALSE, "breaker") /\ UNCHANGED execResult
            ELSE /\ pc' = "snapshot"
                 /\ execResult' = NoResult
                 /\ UNCHANGED << result, endedBy >>
    /\ consecBefore' = 0
    /\ UNCHANGED << isExecuting, consecutiveErrors, totalRetries, currentChunk,
                    running, stopCalled, allFailed, failRun, ordRun,
                    afterPersistent >>

\* lines 502-511: what the next-chunk request reports of the chunk before.
\* execution_time is the constant 0.5 and is left out.
LastResultOf(chunk) ==
    IF chunk # NoChunk THEN [chunk_id |-> chunk.id, success |-> TRUE]
    ELSE NoLastResult

\* the workbook context arrives; lastResult is built and the next-chunk
\* request is sent
SnapshotDone ==
    /\ UNCHANGED << pipeVars, unitVars >>
    /\ UNCHANGED updatedPending
    /\ lastResult' = LastResultOf(currentChunk)
    /\ pc = "snapshot"
    /\ pc' = "request"
    /\ afterPersistent' = FALSE
    /\ UNCHANGED << isExecuting, consecutiveErrors, totalRetries, currentChunk,
                    execResult, result, running, stopCalled, allFailed, failRun, ordRun, consecBefore, endedBy >>

\* getComprehensiveWorkbookData throws
SnapshotThrows ==
    /\ UNCHANGED << pipeVars, unitVars >>
    /\ UNCHANGED updatedPending
    /\ UNCHANGED lastResult
    /\ pc = "snapshot"
    /\ CatchBlock
    /\ UNCHANGED << isExecuting, currentChunk, execResult, running, stopCalled,
                    allFailed, failRun, ordRun, afterPersistent,
                    consecBefore >>

\* getNextChunk throws (fetch rejected or response not ok)
RequestThrows ==
    /\ UNCHANGED << pipeVars, unitVars >>
    /\ UNCHANGED updatedPending
    /\ lastResult' = NoLastResult
    /\ pc = "request"
    /\ CatchBlock
    /\ UNCHANGED << isExecuting, currentChunk, execResult, running, stopCalled,
                    allFailed, failRun, ordRun, afterPersistent,
                    consecBefore >>

\* nextChunk.completed
ResponseCompleted ==
    /\ UNCHANGED << pipeVars, unitVars >>
    /\ UNCHANGED updatedPending
    /\ lastResult' = NoLastResult
    /\ pc = "request"
    /\ Return(TRUE, "completed")
    /\ UNCHANGED << isExecuting, consecutiveErrors, totalRetries, currentChunk,
                    execResult, running, stopCalled, allFailed,
                    failRun, ordRun, afterPersistent, consecBefore >>

\* !nextChunk.chunk
ResponseNoChunk ==
    /\ UNCHANGED << pipeVars, unitVars >>
    /\ UNCHANGED updatedPending
    /\ lastResult' = NoLastResult
    /\ pc = "request"
    /\ Return(FALSE, "nochunk")
    /\ UNCHANGED << isExecuting, consecutiveErrors, totalRetries, currentChunk,
                    execResult, running, stopCalled, allFailed,
                    failRun, ordRun, afterPersistent, consecBefore >>

\* a chunk arrives whose cleaned text is not empty: executeChunk starts and is
\* raced against the timeout
ResponseChunkRuns(id, text) ==
    /\ UNCHANGED << pipeVars, unitVars >>
    /\ updatedPending' = FALSE
    /\ lastResult' = NoLastResult
    /\ pc = "request"
    /\ Trim(CleanedCode[text]) # ""
    /\ currentChunk' = [id |-> id, code |-> text]
    /\ pc' = "exec"
    /\ running' = running + 1
    /\ consecBefore' = consecutiveErrors
    /\ UNCHANGED << isExecuting, consecutiveErrors, totalRetries, execResult, result,
                    stopCalled, allFailed, failRun, ordRun, afterPersistent, endedBy >>

\* a chunk arrives whose cleaned text is empty: executeChunkWithTimeout throws
\* before anything is executed and reports a failure
ResponseChunkEmpty(id, text) ==
    /\ UNCHANGED << pipeVars, unitVars >>
    /\ updatedPending' = FALSE
    /\ lastResult' = NoLastResult
    /\ pc = "request"
    /\ Trim(CleanedCode[text]) = ""
    /\ currentChunk' = [id |-> id, code |-> text]
    /\ consecBefore' = consecutiveErrors
    /\ FailureStep(EmptyCodeError, FALSE, [id |-> id, code |-> text])
    /\ UNCHANGED << isExecuting, result, running, stopCalled, allFailed,
                    endedBy >>

\* executeChunk resolves before the timeout
ExecSucceeds ==
    /\ UNCHANGED << pipeVars, unitVars >>
    /\ UNCHANGED updatedPending
    /\ UNCHANGED lastResult
    /\ pc = "exec"
    /\ running' = running - 1
    /\ execResult' = [chunk_id |-> currentChunk.id, success |-> TRUE,
                      error_message |-> ""]
    /\ consecutiveErrors' = 0
    /\ totalRetries' = TotalAfterSuccess(totalRetries)
    /\ pc' = "interDelay"
    /\ allFailed' = FALSE
    /\ failRun' = 0
    /\ ordRun' = 0
    /\ afterPersistent' = FALSE
    /\ UNCHANGED << isExecuting, currentChunk, result, stopCalled, consecBefore, endedBy >>

\* executeChunk rejects before the timeout
ExecFails(error) ==
    /\ UNCHANGED << pipeVars, unitVars >>
    /\ UNCHANGED updatedPending
    /\ UNCHANGED lastResult
    /\ pc = "exec"
    /\ running' = running - 1
    /\ FailureStep(error, TRUE, currentChunk)
    /\ UNCHANGED << isExecuting, currentChunk, result, stopCalled, allFailed, consecBefore, endedBy >>

\* the timeout wins the race; executeChunk is not cancelled and keeps running
ExecTimeout ==
    /\ UNCHANGED << pipeVars, unitVars >>
    /\ UNCHANGED updatedPending
    /\ UNCHANGED lastResult
    /\ pc = "exec"
    /\ running <= MaxAbandoned
    /\ FailureStep(TimeoutError, TRUE, currentChunk)
    /\ UNCHANGED << isExecuting, currentChunk, result, running, stopCalled,
                    allFailed, consecBefore, endedBy >>

\* an executeChunk invocation that lost its race settles
AbandonedSettles ==
    /\ UNCHANGED << pipeVars, unitVars >>
    /\ UNCHANGED updatedPending
    /\ UNCHANGED lastResult
    /\ running > (IF pc = "exec" THEN 1 ELSE 0)
    /\ running' = running - 1
    /\ UNCHANGED << pc, isExecuting, consecutiveErrors, totalRetries, currentChunk,
                    execResult, result, stopCalled, allFailed,
                    failRun, ordRun, afterPersistent, consecBefore, endedBy >>

\* delay(retryBackoffMs) of the persistent branch is over: continue
PersistDelayDone ==
    /\ UNCHANGED << pipeVars, unitVars >>
    /\ UNCHANGED updatedPending
    /\ UNCHANGED lastResult
    /\ pc = "persistDelay"
    /\ pc' = "top"
    /\ UNCHANGED << isExecuting, consecutiveErrors, totalRetries, currentChunk,
                    execResult, result, running, stopCalled, allFailed, failRun, ordRun, afterPersistent, consecBefore,
                    endedBy >>

\* the backoff is over: handleChunkError is called
BackoffDone ==
    /\ UNCHANGED << pipeVars, unitVars >>
    /\ UNCHANGED updatedPending
    /\ UNCHANGED lastResult
    /\ pc = "backoff"
    /\ pc' = "handleError"
    /\ UNCHANGED << isExecuting, consecutiveErrors, totalRetries, currentChunk,
                    execResult, result, running, stopCalled, allFailed, failRun, ordRun, afterPersistent, consecBefore,
                    endedBy >>

\* handleChunkError returns; auto_fixed is FALSE also when it returns null
HandleErrorDone(auto_fixed) ==
    /\ UNCHANGED << pipeVars, unitVars >>
    /\ UNCHANGED updatedPending
    /\ UNCHANGED lastResult
    /\ pc = "handleError"
    /\ IF auto_fixed /\ totalRetries < maxTotalRetries
       THEN pc' = "getUpdated" /\ UNCHANGED << result, endedBy >>
       ELSE NoRetry
    /\ UNCHANGED << isExecuting, consecutiveErrors, totalRetries, currentChunk,
                    execResult, running, stopCalled, allFailed,
                    failRun, ordRun, afterPersistent, consecBefore >>

\* getUpdatedChunk returns the chunk with the same id and new text: continue
UpdatedChunkArrives(text) ==
    /\ UNCHANGED << pipeVars, unitVars >>
    /\ updatedPending' = TRUE
    /\ UNCHANGED lastResult
    /\ pc = "getUpdated"
    /\ currentChunk' = [id |-> currentChunk.id, code |-> text]
    /\ consecutiveErrors' = Max(0, consecutiveErrors - 1)
    /\ ordRun' = 0
    /\ pc' = "top"
    /\ UNCHANGED << isExecuting, totalRetries, execResult, result, running, stopCalled, allFailed, failRun, afterPersistent,
                    consecBefore, endedBy >>

\* getUpdatedChunk returns null
UpdatedChunkMissing ==
    /\ UNCHANGED << pipeVars, unitVars >>
    /\ UNCHANGED updatedPending
    /\ UNCHANGED lastResult
    /\ pc = "getUpdated"
    /\ NoRetry
    /\ UNCHANGED << isExecuting, consecutiveErrors, totalRetries, currentChunk,
                    execResult, running, stopCalled, allFailed,
                    failRun, ordRun, afterPersistent, consecBefore >>

\* delay(500) between chunks is over
InterDelayDone ==
    /\ UNCHANGED << pipeVars, unitVars >>
    /\ UNCHANGED updatedPending
    /\ UNCHANGED lastResult
    /\ pc = "interDelay"
    /\ pc' = "top"
    /\ UNCHANGED << isExecuting, consecutiveErrors, totalRetries, currentChunk,
                    execResult, result, running, stopCalled, allFailed, failRun, ordRun, afterPersistent, consecBefore,
                    endedBy >>

\* the backoff of the catch block is over
CatchDelayDone ==
    /\ UNCHANGED << pipeVars, unitVars >>
    /\ UNCHANGED updatedPending
    /\ UNCHANGED lastResult
    /\ pc = "catchDelay"
    /\ pc' = "top"
    /\ UNCHANGED << isExecuting, consecutiveErrors, totalRetries, currentChunk,
                    execResult, result, running, stopCalled, allFailed, failRun, ordRun, afterPersistent, consecBefore,
                    endedBy >>

(***************************************************************************)
(* IncrementalExecutor.stop.                                               *)
(***************************************************************************)
Stop ==
    /\ UNCHANGED << pipeVars, unitVars >>
    /\ UNCHANGED updatedPending
    /\ UNCHANGED lastResult
    /\ pc # "done"
    /\ isExecuting \/ ~stopCalled
    /\ isExecuting' = FALSE
    /\ stopCalled' = TRUE
    /\ UNCHANGED << pc, consecutiveErrors, totalRetries, currentChunk, execResult,
                    result, running, allFailed, failRun, ordRun,
                    afterPersistent, consecBefore, endedBy >>

LoopStep ==
    \/ InitFails
    \/ InitSucceeds
    \/ LoopTop
    \/ SnapshotDone
    \/ SnapshotThrows
    \/ RequestThrows
    \/ ResponseCompleted
    \/ ResponseNoChunk
    \/ \E id \in ChunkIds, text \in ChunkCodes : ResponseChunkRuns(id, text)
    \/ \E id \in ChunkIds, text \in ChunkCodes : ResponseChunkEmpty(id, text)
    \/ ExecSucceeds
    \/ \E error \in ExecErrors : ExecFails(error)
    \/ ExecTimeout
    \/ PersistDelayDone
    \/ BackoffDone
    \/ \E auto_fixed \in BOOLEAN : HandleErrorDone(auto_fixed)
    \/ \E text \in ChunkCodes : UpdatedChunkArrives(text)
    \/ UpdatedChunkMissing
    \/ InterDelayDone
    \/ CatchDelayDone

Next ==
    \/ LoopStep
    \/ AbandonedSettles
    \/ Stop

Spec == Init /\ [][Next]_vars

\* Every await of the loop settles: the requests are answered or fail, the
\* delays elapse, and the real execution is raced against a timeout.
FairSpec == Spec /\ WF_vars(LoopStep)

(***************************************************************************)
(* Properties of the orchestrator.                                         *)
(***************************************************************************)

\* C1 (as stated): a session in which every real execution fails, and at
\* least one was attempted, ends with an unsuccessful result after at most
\* maxTotalRetries attempts.
C1_AllFailedEndsAborted ==
    (pc = "done" /\ allFailed /\ failRun >= 1)
        => (result = FALSE /\ failRun <= maxTotalRetries)

\* C1 (amended): while every real execution has failed, at most
\* maxTotalRetries of them are started; such a session terminates; and the
\* result is unsuccessful unless the generator reported completion.
C1_CircuitBreaker ==
    /\ [](allFailed => failRun + (IF pc = "exec" THEN 1 ELSE 0) <= maxTotalRetries)
    /\ []((pc = "done" /\ result = TRUE) => endedBy = "completed")
    /\ <>(~allFailed \/ pc = "done")

C1_Witness ==
    pc = "done" /\ allFailed /\ failRun = maxTotalRetries /\ endedBy = "breaker"

\* C2: the total-retry counter is never reset or decreased while the session
\* runs.
C2_TotalRetriesNeverDecreases == [][totalRetries' >= totalRetries]_vars

\* C3: at most one real execution of a chunk is in progress at any time,
\* executions abandoned by the timeout included.
C3_OneExecutionAtATime == running <= 1

C6_NextActionIsNextChunk == (afterPersistent /\ isExecuting) => pc # "done"

\* C6 (amended): after a failure with a persistent signature, and until the
\* next-chunk request is sent, the orchestrator neither asks for error
\* handling nor for the updated chunk nor executes the chunk again; it waits,
\* re-enters the loop and reads the workbook, or the session ends.
C6_PersistentNeverRetried ==
    afterPersistent => pc \in {"persistDelay", "top", "snapshot", "catchDelay", "done"}

C6_Witness ==
    /\ afterPersistent
    /\ pc = "snapshot"
    /\ isExecuting
    /\ totalRetries >= 1

\* the messages a failed execution can carry, and for each whether it
\* contains p when compared in lower case
FailureMessages == {ErrorMessage[k] : k \in DOMAIN ErrorMessage}

MentionsRateLimited ==
    [m \in FailureMessages |-> Includes(ToLowerCase(m), "rate limited")]

MentionsRateLimitExceeded ==
    [m \in FailureMessages |-> Includes(ToLowerCase(m), "rate limit exceeded")]

\* the loop has just classified a failed execution
Failed == pc = "exec" /\ pc' # "exec" /\ ~execResult'.success

C8_StopEndsSession ==
    /\ [][(pc = "top" /\ ~isExecuting /\ pc' # "top")
            => (pc' = "done" /\ result' = FALSE)]_vars
    /\ [][(isExecuting /\ ~isExecuting') => (running' = running /\ pc' = pc)]_vars
    /\ ((pc # "init" /\ ~isExecuting) ~> (pc = "done"))

C8_Witness == pc = "done" /\ endedBy = "stopped" /\ running >= 1

\* C12: a next-chunk request that follows a failed real execution reports
\* the chunk before as failed: while no execution has succeeded and one has
\* failed, the lastResult of a request names the current chunk and says
\* success: false.
C12_RequestCarriesActualOutcome ==
    (pc = "request" /\ failRun >= 1) =>
        /\ lastResult.chunk_id = currentChunk.id
        /\ ~lastResult.success

(***************************************************************************)
(* More string helpers, for the validator and the corrector.               *)
(***************************************************************************)
\* the i-th character of s, "" outside of s
At(s, i) == IF i \in 1..Len(s) THEN SubSeq(s, i, i) ELSE ""

\* s from position i to its end
From(s, i) == SubSeq(s, i, Len(s))

\* the least and the greatest element of a finite set of positions, 0 when it
\* is empty
Least(P) == IF P = {} THEN 0 ELSE CHOOSE i \in P : \A j \in P : i <= j

Greatest(P) == IF P = {} THEN 0 ELSE CHOOSE i \in P : \A j \in P : i >= j

\* position of the first occurrence of p in s at or after from, 0 if none
IndexFrom(s, p, from) ==
    Least({i \in from..(Len(s) - Len(p) + 1) : SubSeq(s, i, i + Len(p) - 1) = p})

\* first position at or after i that is not matched by \s
SkipWs(s, i) ==
    CHOOSE j \in i..(Len(s) + 1) :
        /\ ~IsWs(At(s, j))
        /\ \A k \in i..(j - 1) : IsWs(At(s, k))

\* s.split(sep)
RECURSIVE Split(_, _)
Split(s, sep) ==
    LET i == IndexFrom(s, sep, 1)
    IN  IF i = 0 THEN << s >>
        ELSE << SubSeq(s, 1, i - 1) >> \o Split(From(s, i + Len(sep)), sep)

\* parts.join(sep)
RECURSIVE JoinWith(_, _)
JoinWith(parts, sep) ==
    IF Len(parts) = 0 THEN ""
    ELSE IF Len(parts) = 1 THEN parts[1]
    ELSE parts[1] \o sep \o JoinWith(Tail(parts), sep)

\* s.replace(p, r) for every occurrence of the literal p
RECURSIVE ReplaceAll(_, _, _)
ReplaceAll(s, p, r) ==
    LET i == IndexFrom(s, p, 1)
    IN  IF i = 0 THEN s
        ELSE SubSeq(s, 1, i - 1) \o r \o ReplaceAll(From(s, i + Len(p)), p, r)

(***************************************************************************)
(* FinancialModelValidator and validateGeneratedCode (taskpane.ts).        *)
(***************************************************************************)
unsupportedAPIs ==
    { "getCell(", "borders.setItem", "setItem(", "border.style", "outline.", "Table." }

\* results.errors.length: one error for each unsupported API the text
\* includes, one for the missing Excel.run wrapper.  No other check of the
\* validator pushes to errors.
ErrorCount(text) ==
    Cardinality({api \in unsupportedAPIs : Includes(text, api)})
      + (IF ~Includes(text, "Excel.run") /\ ~Includes(text, "context.workbook")
         THEN 1 ELSE 0)

\* isValid = errors.length === 0
IsValid(text) == ErrorCount(text) = 0

\* the position after  prop \s* = \s*  when prop starts at i, else 0
AfterAssign(s, prop, i) ==
    IF i + Len(prop) - 1 > Len(s) \/ SubSeq(s, i, i + Len(prop) - 1) # prop THEN 0
    ELSE Only({ IF At(s, e) # "=" THEN 0 ELSE SkipWs(s, e + 1) :
                e \in {SkipWs(s, i + Len(prop))} })

\* /\.values\s*=\s*\[(?!\[)/ (prop = ".values") has a match in the text
Has1DArray(text, prop) ==
    \E i \in 1..Len(text) :
        \E b \in {AfterAssign(text, prop, i)} :
            b # 0 /\ At(text, b) = "[" /\ At(text, b + 1) # "["

\* /\.values\s*=\s*"[^"]*"/ (prop = ".values") has a match in the text
HasStringAssign(text, prop) ==
    \E i \in 1..Len(text) :
        \E b \in {AfterAssign(text, prop, i)} :
            b # 0 /\ At(text, b) = "\"" /\ IndexFrom(text, "\"", b + 1) # 0

\* results.fixableIssues.length > 0.  The issues of validateArrayDimensions.
\* The two other sources add nothing: the call pattern of the uncalled
\* function check matches the declaration itself, and validateRangeOperations
\* reports a 1-D array only where the first pattern above matches too.
HasFixableIssues(text) ==
    \E prop \in {".values", ".formulas"} :
        Has1DArray(text, prop) \/ HasStringAssign(text, prop)

\* validateGeneratedCode of the second definition: the same errors, no
\* fixable issues
LegacyIsValid(text) == ErrorCount(text) = 0

(***************************************************************************)
(* FinancialModelValidator.validate: the whole report.  The lists of the   *)
(* report hold the messages of the code without their leading pictograph;  *)
(* of the errors the report keeps the number.                              *)
(***************************************************************************)
\* c is matched by the class: \d, [A-Z] or \w
InClass(c, class) ==
    LET chars == CASE class = "\\d"    -> "0123456789"
                   [] class = "[A-Z]" -> UpperChars
                   [] class = "\\w"    ->
                        "0123456789" \o UpperChars \o LowerChars \o "_"
    IN  \E d \in 1..62 : d <= Len(chars) /\ Ch(chars, d) = c

\* the first position at or after i whose character is not of the class
RunEnd(s, i, class) ==
    CHOOSE j \in i..(Len(s) + 1) :
        /\ ~InClass(At(s, j), class)
        /\ \A k \in i..(j - 1) : InClass(At(s, k), class)

\* the position after the match of  [A-Z]+\d+  that starts at b, 0 when none
\* starts there
CornerEnd(s, b) ==
    LET Row(c) == Only({ IF r = c THEN 0 ELSE r : r \in {RunEnd(s, c, "\\d")} })
    IN  Only({ IF c = b THEN 0 ELSE Row(c) : c \in {RunEnd(s, b, "[A-Z]")} })

\* parseInt of a string of digits
RECURSIVE ParseInt(_)
ParseInt(ds) ==
    IF ds = "" THEN 0
    ELSE 10 * ParseInt(SubSeq(ds, 1, Len(ds) - 1))
           + ((CHOOSE d \in 1..10 : Ch("0123456789", d) = Ch(ds, Len(ds))) - 1)

\* the position after  word \s+  when word starts at i, else 0
AfterWord(s, word, i) ==
    LET e == i + Len(word)
    IN  IF e > Len(s) + 1 \/ i < 1 THEN 0
        ELSE IF SubSeq(s, i, e - 1) # word \/ ~IsWs(At(s, e)) THEN 0
        ELSE SkipWs(s, e)

\* the elements of a finite set of integers, in ascending order
RECURSIVE Ascending(_)
Ascending(P) ==
    IF P = {} THEN << >>
    ELSE LET lo == CHOOSE i \in P : \A j \in P : i <= j
         IN  << lo >> \o Ascending(P \ {lo})

\* the starts of the occurrences of the literal p in s
Occurrences(s, p) ==
    {i \in 1..(Len(s) - Len(p) + 1) : SubSeq(s, i, i + Len(p) - 1) = p}

\* the strings of a sequence that are not "", in their order
RECURSIVE NonEmpty(_)
NonEmpty(q) ==
    IF q = << >> THEN << >>
    ELSE IF q[Len(q)] = "" THEN NonEmpty(SubSeq(q, 1, Len(q) - 1))
    ELSE Append(NonEmpty(SubSeq(q, 1, Len(q) - 1)), q[Len(q)])

\* the name group of  function\s+(\w+)\s*\(  matched with function at i, ""
\* when there is no match
FunctionNameAt(s, i) ==
    LET Name(b) ==
            Only({ IF e = b THEN ""
                   ELSE IF At(s, SkipWs(s, e)) # "(" THEN ""
                   ELSE SubSeq(s, b, e - 1) :
                   e \in {RunEnd(s, b, "\\w")} })
    IN  Only({ IF b = 0 THEN "" ELSE Name(b) : b \in {AfterWord(s, "function", i)} })

\* the name group of  async\s+function\s+(\w+)\s*\(  matched with async at i
AsyncFunctionNameAt(s, i) ==
    Only({ IF b = 0 THEN "" ELSE FunctionNameAt(s, b) :
           b \in {AfterWord(s, "async", i)} })

\* new RegExp(funcName + '\\s*\\(').test(text), lines 1749-1750
CallPatternMatches(text, funcName) ==
    \E i \in Occurrences(text, funcName) :
        At(text, SkipWs(text, i + Len(funcName))) = "("

\* lines 1737-1753: a fixable issue for every async function declaration
\* whose name is nowhere followed by an opening parenthesis
UncalledIssues(text) ==
    LET Issue(funcName) ==
            IF CallPatternMatches(text, funcName) THEN ""
            ELSE "Function " \o funcName
                    \o "() is declared but never called - add function call"
        Issues(at) ==
            NonEmpty([n \in 1..Len(at) |-> Issue(AsyncFunctionNameAt(text, at[n]))])
    IN  Only({ Issues(at) :
               at \in { Ascending({i \in 1..Len(text) :
                                     AsyncFunctionNameAt(text, i) # ""}) } })

\* the starts of the matches of  prop\s*=\s*\[(?!\[)
OneLevelAssignments(text, prop) ==
    {i \in 1..Len(text) :
        \E b \in {AfterAssign(text, prop, i)} :
            b # 0 /\ At(text, b) = "[" /\ At(text, b + 1) # "["}

\* the starts of the matches of  prop\s*=\s*"[^"]*"
StringAssignments(text, prop) ==
    {i \in 1..Len(text) :
        \E b \in {AfterAssign(text, prop, i)} :
            b # 0 /\ At(text, b) = "\"" /\ IndexFrom(text, "\"", b + 1) # 0}

\* validateArrayDimensions, lines 1793-1838: one message with the number of
\* its line for each match
ArrayDimensionIssues(text) ==
    LET LineOf(i) == 1 + Cardinality({k \in 1..(i - 1) : Ch(text, k) = "\n"})
        Issues(at, what) ==
            LET q == Ascending(at)
            IN  [n \in 1..Len(q) |->
                    "Line " \o ToString(LineOf(q[n])) \o ": Convert " \o what]
    IN  Issues(OneLevelAssignments(text, ".values"),
               "1D array to 2D array in .values assignment")
          \o Issues(OneLevelAssignments(text, ".formulas"),
                    "1D array to 2D array in .formulas assignment")
          \o Issues(StringAssignments(text, ".values"),
                    "string to 2D array in .values assignment")
          \o Issues(StringAssignments(text, ".formulas"),
                    "string to 2D array in .formulas assignment")

\* the groups of  getRange\("([^"]+)"\)\.values\s*=\s*(\[.*?\])  for the
\* match that starts at i; ok is FALSE when none starts there
RangeValueMatch(s, i) ==
    LET none == [ok |-> FALSE, range |-> "", arrayStr |-> ""]
        b    == i + Len("getRange(\"")
        Array(q, a) ==
            Only({ IF cl # 0 /\ (nl = 0 \/ cl < nl)
                   THEN [ok |-> TRUE, range |-> SubSeq(s, b, q - 1),
                         arrayStr |-> SubSeq(s, a, cl)]
                   ELSE none :
                   cl \in {IndexFrom(s, "]", a + 1)}, nl \in {IndexFrom(s, "\n", a)} })
        Assigned(q) ==
            Only({ IF a # 0 /\ At(s, a) = "[" THEN Array(q, a) ELSE none :
                   a \in {AfterAssign(s, ".values", q + 2)} })
    IN  IF b > Len(s) THEN none
        ELSE IF SubSeq(s, i, b - 1) # "getRange(\"" THEN none
        ELSE Only({ IF q > b /\ At(s, q + 1) = ")" THEN Assigned(q) ELSE none :
                    q \in {IndexFrom(s, "\"", b)} })

\* what validateRangeOperations pushes for one match: a fixable issue, a
\* warning or nothing
RangeFinding(m) ==
    LET none == [kind |-> "none", message |-> ""]
        FirstRun(t, class) ==     \* t.match(/[A-Z]+/)?.[0], "" for no match
            Only({ IF k0 = 0 THEN "" ELSE SubSeq(t, k0, RunEnd(t, k0, class) - 1) :
                   k0 \in {Least({k \in 1..Len(t) : InClass(Ch(t, k), class)})} })
        FirstNumber(t) ==         \* parseInt(t.match(/\d+/)?.[0] || '1')
            Only({ IF ds = "" THEN 1 ELSE ParseInt(ds) : ds \in {FirstRun(t, "\\d")} })
        ColumnCode(t) ==          \* charCodeAt(0), counted from A
            CHOOSE d \in 1..26 : Ch(UpperChars, d) = Ch(t, 1)
        Sized(expectedRows, expectedCols, arrayDepth) ==
            IF arrayDepth = 1
            THEN [kind |-> "fixable",
                  message |-> "Range " \o m.range \o " (" \o ToString(expectedRows)
                                \o "x" \o ToString(expectedCols)
                                \o ") uses 1D array - should be 2D"]
            ELSE IF expectedRows > 1 /\ ~Includes(m.arrayStr, "],[")
            THEN [kind |-> "warning",
                  message |-> "Range " \o m.range \o " expects "
                                \o ToString(expectedRows)
                                \o " rows but array may be single row"]
            ELSE none
        Corners(startCol, endCol, startRow, endRow) ==
            IF startCol = "" \/ endCol = "" \/ startRow = 0 \/ endRow = 0 THEN none
            ELSE Only({ Sized(endRow - startRow + 1, expectedCols,
                              CountChar(m.arrayStr, "[")) :
                        expectedCols \in {ColumnCode(endCol) - ColumnCode(startCol) + 1} })
        Parts(parts) ==
            IF Len(parts) # 2 THEN none
            ELSE Only({ Corners(startCol, endCol, startRow, endRow) :
                        startCol \in {FirstRun(parts[1], "[A-Z]")},
                        endCol   \in {FirstRun(parts[2], "[A-Z]")},
                        startRow \in {FirstNumber(parts[1])},
                        endRow   \in {FirstNumber(parts[2])} })
    IN  IF ~m.ok THEN none
        ELSE Only({ Parts(parts) : parts \in {Split(m.range, ":")} })

\* validateRangeOperations, lines 1840-1876: the findings of the kind asked
\* for, in the order of the text
RangeFindings(text, kind) ==
    LET Message(f) == IF f.kind = kind THEN f.message ELSE ""
        Messages(at) ==
            NonEmpty([n \in 1..Len(at) |->
                        Only({ Message(f) :
                               f \in {RangeFinding(RangeValueMatch(text, at[n]))} })])
    IN  Only({ Messages(at) :
               at \in { Ascending({i \in 1..Len(text) :
                                     RangeValueMatch(text, i).ok}) } })

\* results.fixableIssues
FixableIssues(text) ==
    UncalledIssues(text) \o ArrayDimensionIssues(text)
        \o RangeFindings(text, "fixable")

\* the matches of  getRange\("[A-Z]+\d+"\)  (corners = 1) and of
\* getRange\("[A-Z]+\d+:[A-Z]+\d+"\)  (corners = 2)
RangeOps(text, corners) ==
    LET Closed(e) == At(text, e) = "\"" /\ At(text, e + 1) = ")"
    IN  {i \in Occurrences(text, "getRange(\"") :
            \E r1 \in {CornerEnd(text, i + Len("getRange(\""))} :
                /\ r1 # 0
                /\ IF corners = 1 THEN Closed(r1)
                   ELSE /\ At(text, r1) = ":"
                        /\ \E r2 \in {CornerEnd(text, r1 + 1)} : r2 # 0 /\ Closed(r2)}

\* results.warnings (kind = "warnings") and results.suggestions, each in the
\* order of the six checks of validate
Advice(text, kind) ==
    LET When(cond, k, message) ==
            IF cond /\ k = kind THEN << message >> ELSE << >>
        financialTerms ==
            { "dcf", "valuation", "model", "financial", "npv", "irr",
              "assumptions", "projections" }
        financialFunctions ==
            { "NPV(", "IRR(", "PMT(", "FV(", "PV(", "RATE(", "NPER(" }
        hasCalculations ==
            Includes(text, "=") /\ \E op \in {"*", "+", "-", "/"} : Includes(text, op)
        plain ==
            /\ ~Includes(text, ".format.fill.color")
            /\ ~Includes(text, ".format.font.bold")
            /\ ~Includes(text, ".format.font.size")
        Checks(syncCount, singleCellOps, rangeOps, totalOps, lower) ==
            When(syncCount = 0 /\ Includes(text, "getRange("), "warnings",
                 "Missing context.sync() - add after operations for better reliability")
              \o When(~\E term \in financialTerms : Includes(lower, term), "warnings",
                      "No financial model terminology detected - ensure this is a financial model")
              \o When(/\ ~\E f \in financialFunctions : Includes(text, f)
                      /\ Includes(text, "="), "suggestions",
                      "Consider using Excel financial functions")
              \o When(~hasCalculations, "warnings",
                      "No calculations detected - financial models should include formulas")
              \o (IF kind = "warnings" THEN RangeFindings(text, "warning") ELSE << >>)
              \o When(singleCellOps > 20, "warnings",
                      "Many single-cell operations - consider batching into ranges")
              \o When(singleCellOps > 20, "suggestions",
                      "Combine single cells into range operations")
              \o When(3 * syncCount > totalOps, "warnings",
                      "Excessive context.sync() calls - batch operations")
              \o When(Includes(text, "getUsedRange()") /\ totalOps > 10, "warnings",
                      "getUsedRange() with many operations may be slow on large sheets")
              \o When(rangeOps > singleCellOps * 2, "suggestions",
                      "Good use of range operations for better performance")
              \o When(plain, "warnings",
                      "Missing professional formatting - add colors and font styling")
              \o When(plain, "suggestions",
                      "Add header colors: .format.fill.color = \"#4472C4\"")
              \o When(~Includes(text, ".format.numberFormat") /\ Includes(text, "="),
                      "suggestions",
                      "Consider number formatting: .format.numberFormat = \"$#,##0.00\"")
              \o When(~Includes(lower, "header") /\ ~Includes(lower, "title"), "warnings",
                      "No clear headers detected - financial models should have section headers")
              \o When(~Includes(text, "//") /\ Len(text) > 500, "suggestions",
                      "Add comments to explain financial model sections")
    IN  Only({ Checks(syncCount, singleCellOps, rangeOps, singleCellOps + rangeOps,
                      lower) :
               syncCount     \in {Cardinality(Occurrences(text, "context.sync()"))},
               singleCellOps \in {Cardinality(RangeOps(text, 1))},
               rangeOps      \in {Cardinality(RangeOps(text, 2))},
               lower         \in {ToLowerCase(text)} })

\* a report that holds a warning or a fixable issue is invalid
ReportIsValid_weighsAdvice(errors, warnings, fixableIssues, suggestions) ==
    errors = 0 /\ Len(warnings) = 0 /\ Len(fixableIssues) = 0

\* line 1699: isValid = this.results.errors.length === 0
ReportIsValid(errors, warnings, fixableIssues, suggestions) ==
    errors = 0

\* validate(), and validateGeneratedCode, which hands its report on
validate(text) ==
    Only({ [isValid       |-> ReportIsValid(errors, warnings, fixableIssues, suggestions),
            errors        |-> errors,
            warnings      |-> warnings,
            fixableIssues |-> fixableIssues,
            suggestions   |-> suggestions] :
           errors        \in {ErrorCount(text)},
           warnings      \in {Advice(text, "warnings")},
           fixableIssues \in {FixableIssues(text)},
           suggestions   \in {Advice(text, "suggestions")} })

(***************************************************************************)
(* autoCorrectArrayDimensions (taskpane.ts).                               *)
(***************************************************************************)
\* the starts i of prop in the line from which
\*   (.*prop\s*=\s*)\[([^\[\]]*)\](.*)    matches: the bracket opened after
\* the assignment is closed before another bracket is met
ArrayMatches(line, prop) ==
    {i \in 1..Len(line) :
        \E b \in {AfterAssign(line, prop, i)} :
            /\ b # 0
            /\ At(line, b) = "["
            /\ \E cl \in {IndexFrom(line, "]", b + 1)},
                  op \in {IndexFrom(line, "[", b + 1)} :
                  cl # 0 /\ (op = 0 \/ cl < op)}

\* patterns 1 and 2: prefix [ content ] suffix -> prefix [[ content ]] suffix
\* for the last match (the leading .* is greedy)
WrapArray(line, prop) ==
    LET Wrap(b, cl) ==
            SubSeq(line, 1, b - 1) \o "[[" \o SubSeq(line, b + 1, cl - 1) \o "]]"
                \o From(line, cl + 1)
        Bracket(b) == Only({ Wrap(b, cl) : cl \in {IndexFrom(line, "]", b + 1)} })
    IN  Only({ Bracket(b) :
               b \in {AfterAssign(line, prop, Greatest(ArrayMatches(line, prop)))} })

\* the starts of prop from which  (.*prop\s*=\s*)"([^"]*)"  matches
StringMatches(line, prop) ==
    {i \in 1..Len(line) :
        \E b \in {AfterAssign(line, prop, i)} :
            b # 0 /\ At(line, b) = "\"" /\ IndexFrom(line, "\"", b + 1) # 0}

\* patterns 3 and 4: prefix "content" -> prefix [["content"]]
WrapString(line, prop) ==
    LET Wrap(b, q) ==
            SubSeq(line, 1, b - 1) \o "[[" \o SubSeq(line, b, q) \o "]]"
                \o From(line, q + 1)
        Quote(b) == Only({ Wrap(b, q) : q \in {IndexFrom(line, "\"", b + 1)} })
    IN  Only({ Quote(b) :
               b \in {AfterAssign(line, prop, Greatest(StringMatches(line, prop)))} })

\* the callback of lines.map: each pattern starts from the line as given and
\* assigns correctedLine, so the last pattern that applies decides
CorrectLine(line) ==
    IF StringMatches(line, ".formulas") # {} /\ ~Includes(line, "[")
    THEN WrapString(line, ".formulas")
    ELSE IF StringMatches(line, ".values") # {} /\ ~Includes(line, "[")
    THEN WrapString(line, ".values")
    ELSE IF ArrayMatches(line, ".formulas") # {}
    THEN WrapArray(line, ".formulas")
    ELSE IF ArrayMatches(line, ".values") # {}
    THEN WrapArray(line, ".values")
    ELSE line

RunOpen == "await Excel.run(async (context) => {"
SyncCall == "await context.sync();"
CatchClose ==
    "    } catch (error) {\n      console.error(\"Excel operation failed:\", error);\n      throw error;\n    }\n});"

\* replace(/(await context\.sync\(\);\s*)\}\);/g, '$1' + CatchClose)
RECURSIVE CloseWithCatch(_)
CloseWithCatch(s) ==
    LET After(i, j) ==
            IF j + 2 <= Len(s) /\ SubSeq(s, j, j + 2) = "});"
            THEN SubSeq(s, 1, j - 1) \o CatchClose \o CloseWithCatch(From(s, j + 3))
            ELSE SubSeq(s, 1, i + Len(SyncCall) - 1)
                    \o CloseWithCatch(From(s, i + Len(SyncCall)))
        Sync(i) == Only({ After(i, j) : j \in {SkipWs(s, i + Len(SyncCall))} })
    IN  Only({ IF i = 0 THEN s ELSE Sync(i) : i \in {IndexFrom(s, SyncCall, 1)} })

\* the substrings without which rules 3 and 8 of applyEdgeCaseCorrections
\* leave a text alone: a sum, an Office Scripts call
OtherRuleTriggers ==
    { "+", "ExcelScript.", ".getWorksheet(", ".getTables()", ".getCharts()",
      "async function main(workbook" }

\* the texts on which the corrector is modelled in full
InCorrectorScope(text) == \A p \in OtherRuleTriggers : ~Includes(text, p)

\* the characters of the class ["'.] of the rules below, the third of which
\* is the grave accent (see Fence)
QuoteChars == { "\"", "'" }

\* the end of the match of invalidSheetPattern that starts at i, 0 when none
\* starts there.  The three alternatives of the sheet name: white space
\* inside, Sheet and two or more digits, one of !@#$%^&*()
InvalidSheetEnd(s, i) ==
    LET open == ".worksheets.getItem("
        b    == i + Len(open)
        invalid(name) ==
            \/ \E k \in 1..Len(name) : IsWs(Ch(name, k))
            \/ /\ StartsWith(name, "Sheet")
               /\ Len(name) >= 7
               /\ \A k \in 6..Len(name) : InClass(Ch(name, k), "\\d")
            \/ \E k \in 1..Len(name) :
                  Ch(name, k) \in {"!", "@", "#", "$", "%", "^", "&", "*", "(", ")"}
        Quoted(q) ==
            IF q = 0 THEN 0
            ELSE IF At(s, q + 1) # ")" THEN 0
            ELSE IF invalid(SubSeq(s, b + 1, q - 1)) THEN q + 1
            ELSE 0
    IN  IF b > Len(s) THEN 0
        ELSE IF SubSeq(s, i, b - 1) # open \/ At(s, b) \notin QuoteChars THEN 0
        ELSE Only({ Quoted(q) :
                    q \in {Least({k \in (b + 1)..Len(s) : Ch(s, k) \in QuoteChars})} })

\* the groups of  \.getRange\(["'.]([A-Z]+)(\d+):([A-Z]+)(\d+)["'.]\)  for
\* the match that starts at i; end = 0 when none starts there
RangeMatch(s, i) ==
    LET open == ".getRange("
        b    == i + Len(open)
        none == [end |-> 0, col1 |-> "", row1 |-> "", col2 |-> "", row2 |-> ""]
        Groups(e1, e2) ==
            [end  |-> e2 + 1,
             col1 |-> SubSeq(s, b + 1, RunEnd(s, b + 1, "[A-Z]") - 1),
             row1 |-> SubSeq(s, RunEnd(s, b + 1, "[A-Z]"), e1 - 1),
             col2 |-> SubSeq(s, e1 + 1, RunEnd(s, e1 + 1, "[A-Z]") - 1),
             row2 |-> SubSeq(s, RunEnd(s, e1 + 1, "[A-Z]"), e2 - 1)]
        Second(e1) ==
            Only({ IF e2 = 0 THEN none
                   ELSE IF At(s, e2) \in QuoteChars /\ At(s, e2 + 1) = ")"
                   THEN Groups(e1, e2)
                   ELSE none :
                   e2 \in {CornerEnd(s, e1 + 1)} })
    IN  IF b > Len(s) THEN none
        ELSE IF SubSeq(s, i, b - 1) # open \/ At(s, b) \notin QuoteChars THEN none
        ELSE Only({ IF e1 = 0 THEN none
                    ELSE IF At(s, e1) # ":" THEN none
                    ELSE Second(e1) :
                    e1 \in {CornerEnd(s, b + 1)} })

\* the end of the match of
\*   /\.values\s*=\s*\[.*?(true|false|null|undefined).*?\]/
\* that starts at i, 0 when there is none: the first literal after the
\* bracket and the first closing bracket after it, all on the line of the
\* opening bracket
MixedTypeEnd(s, i) ==
    LET literals == { "true", "false", "null", "undefined" }
        LiteralsAt(k, eol) ==
            {w \in literals : k + Len(w) <= eol /\ SubSeq(s, k, k + Len(w) - 1) = w}
        Close(k0, eol) ==
            Only({ IF cl = 0 \/ cl >= eol THEN 0 ELSE cl :
                   cl \in {IndexFrom(s, "]", k0 + Len(Only(LiteralsAt(k0, eol))))} })
        OnLine(b, eol) ==
            Only({ IF k0 = 0 THEN 0 ELSE Close(k0, eol) :
                   k0 \in {Least({k \in (b + 1)..(eol - 1) :
                                    LiteralsAt(k, eol) # {}})} })
        Line(b) ==
            Only({ OnLine(b, IF nl = 0 THEN Len(s) + 1 ELSE nl) :
                   nl \in {IndexFrom(s, "\n", b)} })
    IN  Only({ IF b = 0 THEN 0
               ELSE IF At(s, b) # "[" THEN 0
               ELSE Line(b) :
               b \in {AfterAssign(s, ".values", i)} })

\* the last position of the match of a pattern of applyEdgeCaseCorrections
\* that starts at i, 0 when none starts there.  largeRangePattern wants four
\* or more digits in the second row, invalidRangePattern takes any range of
\* two corners.
MatchEnd(pattern, s, i) ==
    CASE pattern = "invalidSheetPattern" -> InvalidSheetEnd(s, i)
      [] pattern = "mixedTypePattern"    -> MixedTypeEnd(s, i)
      [] pattern \in {"largeRangePattern", "invalidRangePattern"} ->
            Only({ IF pattern = "largeRangePattern" /\ Len(m.row2) < 4 THEN 0
                   ELSE m.end :
                   m \in {RangeMatch(s, i)} })

\* what the callback of the pattern returns for the match m (rules 1, 2, 4
\* and 7)
Replacement(pattern, m) ==
    CASE pattern = "invalidSheetPattern" -> ".worksheets.getItem(\"Sheet1\")"
      [] pattern = "largeRangePattern"   -> ".getRange(\"A1:Z100\")"
      [] pattern = "mixedTypePattern"    ->
            \* match.replace(/(true|false)/g, '"$1"')
            \*      .replace(/(null|undefined)/g, '""')
            ReplaceAll(ReplaceAll(ReplaceAll(ReplaceAll(m,
                "true", "\"true\""), "false", "\"false\""), "null", "\"\""),
                "undefined", "\"\"")
      [] pattern = "invalidRangePattern" ->
            \* a second row that is not below the first becomes the first + 5
            Only({ IF ParseInt(g.row2) <= ParseInt(g.row1)
                   THEN ".getRange(\"" \o g.col1 \o g.row1 \o ":" \o g.col2
                           \o ToString(ParseInt(g.row1) + 5) \o "\")"
                   ELSE m :
                   g \in {RangeMatch(m, 1)} })

\* s.replace(pattern, callback) with the g flag: every match, from left to
\* right, each search starting after the match before
RECURSIVE ReplaceEach(_, _)
ReplaceEach(given, pattern) ==
    LET Rest(s, i, e) ==
            SubSeq(s, 1, i - 1) \o Replacement(pattern, SubSeq(s, i, e))
                \o ReplaceEach(From(s, e + 1), pattern)
        First(s, ends) ==
            Only({ IF i = 0 THEN s ELSE Rest(s, i, ends[i]) :
                   i \in {Least({k \in 1..Len(s) : ends[k] # 0})} })
        Ends(s) == [i \in 1..Len(s) |-> MatchEnd(pattern, s, i)]
    IN  Only(UNION { { First(s, ends) : ends \in {Ends(s)} } : s \in {given} })

\* rule 5 of applyEdgeCaseCorrections: error handling around Excel.run; the
\* condition reads the text as it was given, the replacement works on the
\* text as corrected so far
AddErrorHandling(given, s) ==
    IF Includes(given, "Excel.run") /\ ~Includes(given, "try") /\ ~Includes(given, "catch")
    THEN CloseWithCatch(ReplaceAll(s, RunOpen, RunOpen \o "\n    try {"))
    ELSE s

\* the name group of the k-th of functionPatterns matched at i: async
\* function, function, then  const\s+(\w+)\s*=\s*async\s+\(  and the same
\* with let and var.  The sixth pattern (async function main) finds nothing
\* the first does not find.
DeclaredNameAt(s, k, i) ==
    LET keyword == << "async function", "function", "const", "let", "var" >>[k]
        Arrow(b, e, eq) ==
            Only({ IF a = 0 THEN ""
                   ELSE IF At(s, a) # "(" THEN ""
                   ELSE SubSeq(s, b, e - 1) :
                   a \in {AfterWord(s, "async", SkipWs(s, eq + 1))} })
        Assigned(b, e) ==
            Only({ IF At(s, eq) # "=" THEN "" ELSE Arrow(b, e, eq) :
                   eq \in {SkipWs(s, e)} })
        Named(b) ==
            Only({ IF e = b THEN "" ELSE Assigned(b, e) : e \in {RunEnd(s, b, "\\w")} })
    IN  IF k = 1 THEN AsyncFunctionNameAt(s, i)
        ELSE IF k = 2 THEN FunctionNameAt(s, i)
        ELSE Only({ IF b = 0 THEN "" ELSE Named(b) : b \in {AfterWord(s, keyword, i)} })

\* declaredFunctions of autoCorrectArrayDimensions: the names the patterns
\* find, pattern after pattern, each in the order of the text, without the
\* later copies of a name
declaredFunctions(s) ==
    LET w == Len(s) + 1       \* the match of pattern k at i has the place k * w + i
        Name(c) == DeclaredNameAt(s, c \div w, c % w)
        Names(at) == [n \in 1..Len(at) |-> Name(at[n])]
        Firsts(all) ==
            Only({ [n \in 1..Len(order) |-> all[order[n]]] :
                   order \in { Ascending({n \in 1..Len(all) :
                                            \A k \in 1..(n - 1) : all[k] # all[n]}) } })
    IN  Only(UNION { { Firsts(all) : all \in {Names(at)} } :
                     at \in { Ascending({c \in w..(6 * w) :
                                           c % w # 0 /\ Name(c) # ""}) } })

\* one of callPatterns matches: \bname\s*\( , name\.call\s*\( or
\* name\.apply\s*\( ; the awaited call and the method call are matches of
\* the first
functionIsCalled(s, funcName) ==
    \E i \in Occurrences(s, funcName) :
        LET e == i + Len(funcName)
        IN  \/ ~InClass(At(s, i - 1), "\\w") /\ At(s, SkipWs(s, e)) = "("
            \/ \E mth \in {".call", ".apply"} :
                  /\ e + Len(mth) - 1 <= Len(s)
                  /\ SubSeq(s, e, e + Len(mth) - 1) = mth
                  /\ At(s, SkipWs(s, e + Len(mth))) = "("

\* declaredFunctions.forEach of lines 597-637, over the names from the k-th
\* on: a call is appended for each function that is not called
RECURSIVE AddMissingCalls(_, _, _)
AddMissingCalls(given, names, k) ==
    LET funcName == names[k]
        call(s) ==
            IF \E w \in {"create", "build", "generate", "merger"} :
                   Includes(ToLowerCase(funcName), w)
            THEN "\n\n// Auto-generated function call for creation function\n"
                    \o funcName \o "();"
            ELSE IF Includes(s, "async function " \o funcName)
            THEN "\n\n// Auto-generated async function call\nawait "
                    \o funcName \o "();"
            ELSE "\n\n// Auto-generated function call\n" \o funcName \o "();"
    IN  Only({ IF k > Len(names) THEN s
               ELSE IF functionIsCalled(s, funcName)
               THEN AddMissingCalls(s, names, k + 1)
               ELSE AddMissingCalls(s \o call(s), names, k + 1) :
               s \in {given} })

\* rule 6 of applyEdgeCaseCorrections, asyncCallPattern with the g and m
\* flags: a line that is white space, a name and (); gets an await when the
\* text as given declares the name as async
AwaitAsyncCalls(given, s) ==
    LET AwaitLine(line) ==
            LET b        == SkipWs(line, 1)
                funcName == SubSeq(line, b, Len(line) - 3)
                isName   ==       \* [a-zA-Z_$][a-zA-Z0-9_$]*
                    /\ ~InClass(Ch(funcName, 1), "\\d")
                    /\ \A k \in 1..Len(funcName) :
                          InClass(Ch(funcName, k), "\\w") \/ Ch(funcName, k) = "$"
            IN  IF Len(line) - b < 3 THEN line
                ELSE IF ~EndsWith(line, "();") THEN line
                ELSE IF ~isName THEN line
                ELSE IF \/ Includes(given, "async function " \o funcName)
                        \/ Includes(given, funcName \o " = async")
                THEN SubSeq(line, 1, b - 1) \o "await " \o funcName \o "();"
                ELSE line
    IN  Only({ JoinWith([k \in 1..Len(lines) |-> AwaitLine(lines[k])], "\n") :
               lines \in {Split(s, "\n")} })

\* rules 1, 2, 4, 5, 6 and 7 of applyEdgeCaseCorrections, in the order of the
\* code
applyEdgeCaseCorrections(text) ==
    Only({ ReplaceEach(waited, "invalidRangePattern") :
           waited \in { AwaitAsyncCalls(text, caught) :
           caught \in { AddErrorHandling(text, mixed) :
           mixed  \in { ReplaceEach(ranges, "mixedTypePattern") :
           ranges \in { ReplaceEach(sheets, "largeRangePattern") :
           sheets \in { ReplaceEach(text, "invalidSheetPattern") } } } } } })

\* the line pass, the function calls, then the edge case corrections
autoCorrectArrayDimensions(text) ==
    LET correctedLines(lines) == [k \in 1..Len(lines) |-> CorrectLine(lines[k])]
        called(correctedCode) ==
            { AddMissingCalls(correctedCode, names, 1) :
                names \in { declaredFunctions(correctedCode) } }
    IN  Only({ applyEdgeCaseCorrections(withCalls) :
               withCalls \in UNION { called(correctedCode) :
               correctedCode \in { JoinWith(correctedLines(lines), "\n") :
               lines \in { Split(text, "\n") } } } })

(***************************************************************************)
(* testCodeInMockEnvironmentSimple (taskpane.ts).                          *)
(***************************************************************************)
\* the argument of the first getRange("...") of the text
FirstRange(text) ==
    LET b(i) == i + Len("getRange(\"")
    IN  Only({ IF i = 0 THEN "" ELSE SubSeq(text, b(i), IndexFrom(text, "\"", b(i)) - 1) :
               i \in {IndexFrom(text, "getRange(\"", 1)} })

\* the message of the Error a text throws itself, "" when it throws none
OwnThrow(text) ==
    LET b(i) == i + Len("throw new Error(\"")
    IN  Only({ IF i = 0 THEN "" ELSE SubSeq(text, b(i), IndexFrom(text, "\"", b(i)) - 1) :
               i \in {IndexFrom(text, "throw new Error(\"", 1)} })

\* what the setters of the mock range throw for the first assignment
MockSetterError(text) ==
    LET Thrown(prop, data, which) ==
            IF HasStringAssign(text, prop)
            THEN "Non-array " \o data \o " for range " \o FirstRange(text)
            ELSE IF Has1DArray(text, prop)
            THEN "1D " \o which \o " detected for range " \o FirstRange(text)
                    \o " - Excel requires 2D arrays"
            ELSE ""
    IN  Only({ IF values # "" THEN values
               ELSE Thrown(".formulas", "formulas", "formula array") :
               values \in {Thrown(".values", "data", "array")} })

\* names a chunk text uses without declaring them when it brings no Excel.run
FreeNames == { "context", "sheet" }

\* the possible values of errors[0] of the mock test, "" for success.  The
\* text runs as the body of a function whose only parameter is mockExcel: a
\* text without Excel.run fails on a name that is not defined; a text with
\* Excel.run reaches the mock worksheet, where its own throw or a setter of
\* the mock range fails it.
MockResults(text) ==
    IF ~Includes(text, "Excel.run")
    THEN {n \o " is not defined" : n \in {m \in FreeNames : Includes(text, m \o ".")}}
    ELSE Only({ IF thrown # "" THEN {thrown} ELSE {MockSetterError(text)} :
                thrown \in {OwnThrow(text)} })

(***************************************************************************)
(* executeExcelScriptCode and executeDirectExcel (taskpane.ts).            *)
(***************************************************************************)
MAX_RECORDS == 100

\* the texts a call is given
PipelineTexts ==
    { "const s = context.workbook.worksheets.getActiveWorksheet();\ns.getRange(\"A1\").values = [[1]];",
      "const s = context.workbook.worksheets.getActiveWorksheet();\ns.getRange(\"A1\").values = [1];",
      "const s = context.workbook.worksheets.getActiveWorksheet();\ns.getCell(0, 0).values = [1];",
      "sheet.getRange(\"A1\").values = \"x\";",
      "await Excel.run(async (context) => {\n  const s = context.workbook.worksheets.getActiveWorksheet();\n  s.getRange(\"A1\").values = [1];\n  await context.sync();\n});",
      "await Excel.run(async (context) => {\n  const s = context.workbook.worksheets.getActiveWorksheet();\n  s.getRange(\"A1\").values = [\n    1];\n  await context.sync();\n});",
      "await Excel.run(async (context) => {\n  throw new Error(\"dimension\");\n});" }

\* the wrapper both execution paths put around a text without Excel.run
WrapInExcelRun(text) ==
    IF Includes(text, "Excel.run") THEN text
    ELSE "\nawait Excel.run(async (context) => {\n  " \o text
            \o "\n  await context.sync();\n});\n"

\* executeExcelScriptCode, lines 355-377: which text is kept after the
\* correction pass and the second validation
KeptAfterCorrection(text) ==
    Only({ IF IsValid(correctedCode) THEN correctedCode
           ELSE IF ErrorCount(correctedCode) < ErrorCount(text) THEN correctedCode
           ELSE text :
           correctedCode \in { autoCorrectArrayDimensions(text) } })

\* executeDirectExcel: finalCode.  The first definition corrects the text it
\* is given, the second runs it as it is.
FinalCode(v, text) ==
    IF v = "first" THEN autoCorrectArrayDimensions(text) ELSE text

\* FailurePatternDatabase.recordFailure / recordSuccess: push, keep the last
\* MAX_RECORDS
Recorded(n) == Min(n + 1, MAX_RECORDS)

\* how a run in the Script Lab iframe can end: the text ran and succeeded,
\* ran and failed, did not run (Office.js or Excel missing in the iframe), or
\* the 30 s timer of the engine fired after the text had started or before
ScriptLabOutcomes ==
    { "success", "failed", "unavailable", "timeout running", "timeout idle" }

\* how the eval of executeDirectExcel can end
DirectOutcomes == { "success", "failed", "unavailable" }

\* the outcomes in which the text ran against the workbook
Started == { "success", "failed", "timeout running" }

\* every text a call can hold, and every result a mock test of one can have
CallTexts ==
    { IF corrected THEN autoCorrectArrayDimensions(t) ELSE t :
        t \in PipelineTexts, corrected \in BOOLEAN }

MockOutcomes ==
    UNION { MockResults(IF corrected THEN autoCorrectArrayDimensions(t) ELSE t) :
              t \in CallTexts, corrected \in BOOLEAN }

PipeInit ==
    /\ OrchIdle
    /\ UnitIdle
    /\ version \in {"first", "second"}
    /\ ppc = "validate"
    /\ original \in {t \in PipelineTexts : InCorrectorScope(t)}
    /\ code = original
    /\ mockError = ""
    /\ failures \in {0, MAX_RECORDS}
    /\ successes \in {0, MAX_RECORDS}
    /\ answer = "none"
    /\ attempts = << >>

\* first definition, lines 324-380: validate, correct, validate again
PipeValidate ==
    /\ version = "first"
    /\ ppc = "validate"
    /\ code' = IF ~IsValid(code) \/ HasFixableIssues(code)
               THEN KeptAfterCorrection(code)
               ELSE code
    /\ ppc' = "mock"
    /\ UNCHANGED << version, mockError, failures, successes, answer, original,
                    attempts >>
    /\ UNCHANGED << orchVars, unitVars >>

\* second definition, lines 2767-2771: an invalid text is refused
PipeValidateSecond ==
    /\ version = "second"
    /\ ppc = "validate"
    /\ IF ~LegacyIsValid(code)
       THEN ppc' = "done" /\ answer' = "Code validation failed"
       ELSE ppc' = "scriptlab" /\ UNCHANGED answer
    /\ UNCHANGED << version, code, mockError, failures, successes, original,
                    attempts >>
    /\ UNCHANGED << orchVars, unitVars >>

\* the second chance is given only while the ledger holds fewer than
\* MAX_RECORDS failures
PipeMockTest_gated(e) ==
    /\ ppc = "mock"
    /\ e \in MockResults(code)
    /\ mockError' = e
    /\ IF e = ""
       THEN /\ successes' = Recorded(successes)
            /\ ppc' = "scriptlab"
            /\ UNCHANGED failures
       ELSE IF Includes(e, "dimension") /\ failures < MAX_RECORDS
            THEN ppc' = "retest" /\ UNCHANGED << failures, successes >>
            ELSE /\ failures' = Recorded(failures)
                 /\ ppc' = "scriptlab"
                 /\ UNCHANGED successes
    /\ UNCHANGED << version, code, answer, original, attempts >>
    /\ UNCHANGED << orchVars, unitVars >>

\* lines 386-431: the mock test of the kept text
PipeMockTest(e) ==
    /\ ppc = "mock"
    /\ e \in MockResults(code)
    /\ mockError' = e
    /\ IF e = ""
       THEN /\ successes' = Recorded(successes)
            /\ ppc' = "scriptlab"
            /\ UNCHANGED failures
       ELSE IF Includes(e, "dimension")
            THEN ppc' = "retest" /\ UNCHANGED << failures, successes >>
            ELSE /\ failures' = Recorded(failures)
                 /\ ppc' = "scriptlab"
                 /\ UNCHANGED successes
    /\ UNCHANGED << version, code, answer, original, attempts >>
    /\ UNCHANGED << orchVars, unitVars >>

\* lines 393-414: the mock test named a dimension: correct, test again, keep
\* the corrected text if that test passes; record the failure
PipeRetest(e) ==
    /\ ppc = "retest"
    /\ \E correctedCode \in {autoCorrectArrayDimensions(code)} :
          /\ e \in MockResults(correctedCode)
          /\ code' = IF e = "" THEN correctedCode ELSE code
    /\ failures' = Recorded(failures)
    /\ ppc' = "scriptlab"
    /\ UNCHANGED << version, mockError, successes, answer, original, attempts >>
    /\ UNCHANGED << orchVars, unitVars >>

\* lines 433-458: wrap, run in the Script Lab iframe; on failure go on to
\* executeDirectExcel
PipeScriptLab(outcome) ==
    /\ ppc = "scriptlab"
    /\ attempts' = Append(attempts, [by |-> "scriptlab", text |-> code,
                                     script |-> WrapInExcelRun(code),
                                     outcome |-> outcome])
    /\ IF outcome = "success"
       THEN ppc' = "done" /\ answer' = "executed"
       ELSE ppc' = "direct" /\ UNCHANGED answer
    /\ UNCHANGED << version, code, mockError, failures, successes, original >>
    /\ UNCHANGED << orchVars, unitVars >>

\* executeDirectExcel: correct (first definition), wrap, eval
PipeDirect(outcome) ==
    /\ ppc = "direct"
    /\ \E finalCode \in {FinalCode(version, code)} :
          attempts' = Append(attempts, [by |-> "direct", text |-> finalCode,
                                        script |-> WrapInExcelRun(finalCode),
                                        outcome |-> outcome])
    /\ answer' = IF outcome = "success" THEN "created" ELSE "Direct execution failed"
    /\ ppc' = "done"
    /\ UNCHANGED << version, code, mockError, failures, successes, original >>
    /\ UNCHANGED << orchVars, unitVars >>

PipeNext ==
    \/ PipeValidate
    \/ PipeValidateSecond
    \/ \E e \in MockOutcomes : PipeMockTest(e)
    \/ \E e \in MockOutcomes : PipeRetest(e)
    \/ \E outcome \in ScriptLabOutcomes : PipeScriptLab(outcome)
    \/ \E outcome \in DirectOutcomes : PipeDirect(outcome)

PipeSpec == PipeInit /\ [][PipeNext]_vars

\* the attempts in which the text ran against the workbook
RealRuns == {i \in DOMAIN attempts : attempts[i].outcome \in Started}

(***************************************************************************)
(* Properties of one call of executeExcelScriptCode.                       *)
(***************************************************************************)

\* C4: within one call a text is run against the real workbook at most once.
C4_AtMostOneRealRun == Cardinality(RealRuns) <= 1

\* C9: validation and simulation are advisory: a call that has returned has
\* attempted the real execution of its text.
C9_EveryTextReachesExecution == (ppc = "done") => Len(attempts) >= 1

\* C10: a text handed to real execution is the original, or it is the
\* corrected original and that is valid or has strictly fewer validation
\* errors than the original; it never has more errors than the better of the
\* two.
C10_KeptTextIsBest ==
    \A i \in DOMAIN attempts :
        LET t == attempts[i].text
            c == autoCorrectArrayDimensions(original)
        IN  /\ ErrorCount(t) <= Min(ErrorCount(original), ErrorCount(c))
            /\ \/ t = original
               \/ t = c /\ (IsValid(c) \/ ErrorCount(c) < ErrorCount(original))

(***************************************************************************)
(* The validator and the corrector applied to one text, as                 *)
(* runSelfDiagnostics and executeExcelScriptCode apply them: validate,     *)
(* correct, validate what the correction returned, correct again.          *)
(***************************************************************************)
\* number of passes of the corrector over one text
MaxPasses == 2

\* no report was made yet
NoReport ==
    [isValid |-> FALSE, errors |-> -1, warnings |-> << >>,
     fixableIssues |-> << >>, suggestions |-> << >>]

\* the texts given: the Valid Code Test of runSelfDiagnostics; a text that
\* brings its own error handling; a boolean in a two-level literal; a
\* one-level literal for one cell; a one-level literal for a range of two
\* corners; a one-level literal that spans lines; a one-level formulas
\* literal; the uncalled_function_basic test of the EdgeCaseTester; an async
\* function buildModel that is never called; an async arrow function that is
\* never called; a string for a cell; a text without the wrapper that
\* calls getCell
CorrectorTexts ==
    { "sheet.getCell(0, 0).values = [[1]];",
      "await Excel.run(async (context) => { const sheet = context.workbook.worksheets.getActiveWorksheet(); sheet.getRange(\"A1\").values = [[\"Valid Test\"]]; await context.sync(); });",
      "await Excel.run(async (context) => {\n  try {\n    const sheet = context.workbook.worksheets.getActiveWorksheet();\n    sheet.getRange(\"A1\").values = [[\"Total\"]];\n    await context.sync();\n  } catch (error) {\n    throw error;\n  }\n});",
      "await Excel.run(async (context) => {\n  try {\n    const sheet = context.workbook.worksheets.getActiveWorksheet();\n    sheet.getRange(\"A1\").values = [[true]];\n    await context.sync();\n  } catch (error) {\n    throw error;\n  }\n});",
      "await Excel.run(async (context) => {\n  try {\n    const sheet = context.workbook.worksheets.getActiveWorksheet();\n    sheet.getRange(\"A1\").values = [1];\n    await context.sync();\n  } catch (error) {\n    throw error;\n  }\n});",
      "await Excel.run(async (context) => {\n  const sheet = context.workbook.worksheets.getActiveWorksheet();\n  sheet.getRange(\"A1:B1\").values = [1, 2];\n  await context.sync();\n});",
      "await Excel.run(async (context) => {\n  const sheet = context.workbook.worksheets.getActiveWorksheet();\n  sheet.getRange(\"A1\").values = [\n    1\n  ];\n  await context.sync();\n});",
      "await Excel.run(async (context) => {\n  const sheet = context.workbook.worksheets.getActiveWorksheet();\n  sheet.getRange(\"A3\").formulas = [\"=SUM(A1:A2)\"];\n  await context.sync();\n});",
      "\nasync function createModel() {\n  await Excel.run(async (context) => {\n    const sheet = context.workbook.worksheets.getItem(\"Sheet1\");\n    sheet.getRange(\"A1\").values = [[\"Test\"]];\n    await context.sync();\n  });\n}",
      "async function buildModel() {\n  await Excel.run(async (context) => {\n    const sheet = context.workbook.worksheets.getActiveWorksheet();\n    sheet.getRange(\"A1\").values = [[\"Revenue\"]];\n    await context.sync();\n  });\n}",
      "const buildModel = async (title) => {\n  await Excel.run(async (context) => {\n    const sheet = context.workbook.worksheets.getActiveWorksheet();\n    sheet.getRange(\"A1\").values = [[title]];\n    await context.sync();\n  });\n};",
      "await Excel.run(async (context) => {\n  const sheet = context.workbook.worksheets.getActiveWorksheet();\n  sheet.getRange(\"A1\").values = \"x\";\n  await context.sync();\n});" }

CorrInit ==
    /\ OrchIdle
    /\ PipeIdle
    /\ ExtIdle
    /\ LedgerIdle
    /\ SimIdle
    /\ source \in {t \in CorrectorTexts : InCorrectorScope(t)}
    /\ texts = << source >>
    /\ reports = << NoReport >>

\* autoCorrectArrayDimensions is called with the text the pass before
\* returned
Correct ==
    /\ Len(texts) <= MaxPasses
    /\ texts' = Append(texts, autoCorrectArrayDimensions(texts[Len(texts)]))
    /\ reports' = Append(reports, NoReport)
    /\ UNCHANGED << source, orchVars, pipeVars, extVars, ledgerVars, simVars >>

\* validateGeneratedCode is called with the k-th text
Validate(k) ==
    /\ k \in 1..Len(texts)
    /\ reports[k] = NoReport
    /\ reports' = [reports EXCEPT ![k] = validate(texts[k])]
    /\ UNCHANGED << source, texts, orchVars, pipeVars, extVars, ledgerVars, simVars >>

CorrNext ==
    \/ Correct
    \/ \E k \in 1..(MaxPasses + 1) : Validate(k)

CorrSpec == CorrInit /\ [][CorrNext]_vars

(***************************************************************************)
(* Properties of the validator and the corrector.                          *)
(***************************************************************************)

\* C11: the corrector is idempotent: a second pass returns what the first
\* pass returned, correct(correct(c)) = correct(c).
C11_CorrectorIdempotent == Len(texts) >= 3 => texts[3] = texts[2]

\* C13: a report is valid exactly when it holds no error; the warnings, the
\* fixable issues and the suggestions it holds do not make it invalid.
C13_ValidIffNoErrors ==
    \A k \in 1..Len(reports) :
        reports[k] # NoReport => (reports[k].isValid <=> reports[k].errors = 0)

\* a valid report that holds warnings, a fixable issue and suggestions
C13_Witness ==
    \E k \in 1..Len(reports) :
        /\ reports[k] # NoReport
        /\ reports[k].isValid
        /\ reports[k].warnings # << >>
        /\ reports[k].fixableIssues # << >>
        /\ reports[k].suggestions # << >>

\* C14: for a text that assigns one-level array literals to .values or
\* .formulas, the report made before the correction holds exactly one
\* fixable issue for each such assignment, and the report of the corrected
\* text holds none.
C14_OneIssuePerLiteralThenNone ==
    LET literals == Cardinality(OneLevelAssignments(source, ".values"))
                      + Cardinality(OneLevelAssignments(source, ".formulas"))
    IN  (/\ literals >= 1
         /\ Len(texts) >= 2
         /\ reports[1] # NoReport
         /\ reports[2] # NoReport)
        => /\ Len(reports[1].fixableIssues) = literals
           /\ Len(reports[2].fixableIssues) = 0

\* C15: for a text that declares an async function and names it nowhere
\* else, the report made before the correction holds the uncalled-function
\* issue, the corrected text ends with an awaited call of the function, and
\* the report of the corrected text does not hold the issue.
C15_UncalledRoutineRepaired ==
    LET declared == {AsyncFunctionNameAt(source, i) : i \in 1..Len(source)} \ {""}
        uncalled == {n \in declared : Cardinality(Occurrences(source, n)) = 1}
        Issue(n) == "Function " \o n
                        \o "() is declared but never called - add function call"
        Holds(r, n) == \E k \in 1..Len(r.fixableIssues) : r.fixableIssues[k] = Issue(n)
    IN  (/\ uncalled # {}
         /\ Len(texts) >= 2
         /\ reports[1] # NoReport
         /\ reports[2] # NoReport)
        => \A n \in uncalled :
              /\ Holds(reports[1], n)
              /\ EndsWith(texts[2], "await " \o n \o "();")
              /\ ~Holds(reports[2], n)

\* C16: a text that is valid, has the Excel.run wrapper, calls context.sync()
\* and has no fixable issue comes back from the corrector as it was given.
C16_ValidChunkUnchanged ==
    (/\ Len(texts) >= 2
     /\ reports[1] # NoReport
     /\ reports[1].isValid
     /\ reports[1].fixableIssues = << >>
     /\ Includes(source, "Excel.run")
     /\ Includes(source, "context.sync()"))
    => texts[2] = source

(***************************************************************************)
(* testCodeInMockEnvironmentSimple, property set by property set, and the  *)
(* same chunk on MockExcelEnvironment.  A chunk is the sequence of the     *)
(* property sets its text makes inside Excel.run; of the data of a set the *)
(* model keeps what the two mocks look at: Array.isArray(data),            *)
(* data.length, Array.isArray(data[0]) and data[0]?.length || 0.           *)
(***************************************************************************)
Data(isArray, length, firstIsArray, firstLength) ==
    [isArray |-> isArray, length |-> length, firstIsArray |-> firstIsArray,
     firstLength |-> firstLength]

PropertySet(type, range, data) == [type |-> type, range |-> range, data |-> data]

\* the chunks given: a cell and its fill colour; [1, 2] for A1:B1; ["a", "b"]
\* for the column A:A; a cell and then a formula given as a string; two rows
\* for A1:A2 and a number format
SimChunks ==
    { << PropertySet("setValue", "A1", Data(TRUE, 1, TRUE, 1)),
         PropertySet("setFillColor", "A1", Data(FALSE, 7, FALSE, 0)) >>,
      << PropertySet("setValue", "A1:B1", Data(TRUE, 2, FALSE, 0)) >>,
      << PropertySet("setValue", "A:A", Data(TRUE, 2, FALSE, 1)) >>,
      << PropertySet("setValue", "B2", Data(TRUE, 1, TRUE, 1)),
         PropertySet("setFormula", "B3", Data(FALSE, 3, FALSE, 0)) >>,
      << PropertySet("setValue", "A1:A2", Data(TRUE, 2, TRUE, 1)),
         PropertySet("setNumberFormat", "A1:A2", Data(FALSE, 5, FALSE, 0)) >> }

\* the setters of the range of createMockWorksheet, lines 1401-1422: what
\* they throw after the push, "" when they return
MockSetError(op) ==
    LET what == IF op.type = "setValue" THEN "data" ELSE "formulas"
        which == IF op.type = "setValue" THEN "array" ELSE "formula array"
    IN  IF op.type \notin {"setValue", "setFormula"} THEN ""
        ELSE IF ~op.data.isArray
        THEN "Non-array " \o what \o " for range " \o op.range
        ELSE IF op.data.length > 0 /\ ~op.data.firstIsArray
        THEN "1D " \o which \o " detected for range " \o op.range
                \o " - Excel requires 2D arrays"
        ELSE ""

\* MockExcelEnvironment.parseRange: the rows and columns of an address that
\* matches /^([A-Z]+)(\d+)(?::([A-Z]+)(\d+))?$/, ok = FALSE for null
parseRange(range) ==
    LET columnToNumber(column) ==
            LET RECURSIVE Upto(_)
                Upto(n) ==
                    IF n = 0 THEN 0
                    ELSE Upto(n - 1) * 26
                           + (CHOOSE d \in 1..26 : Ch(UpperChars, d) = Ch(column, n))
            IN  Upto(Len(column))
        c1 == RunEnd(range, 1, "[A-Z]")
        r1 == RunEnd(range, c1, "\\d")
        c2 == RunEnd(range, r1 + 1, "[A-Z]")
        r2 == RunEnd(range, c2, "\\d")
        startCol == columnToNumber(SubSeq(range, 1, c1 - 1))
        startRow == ParseInt(SubSeq(range, c1, r1 - 1))
        none == [ok |-> FALSE, startRow |-> 0, endRow |-> 0, startCol |-> 0,
                 endCol |-> 0]
    IN  IF c1 = 1 \/ r1 = c1 THEN none
        ELSE IF r1 = Len(range) + 1
        THEN [ok |-> TRUE, startRow |-> startRow, endRow |-> startRow,
              startCol |-> startCol, endCol |-> startCol]
        ELSE IF At(range, r1) # ":" \/ c2 = r1 + 1 \/ r2 = c2 \/ r2 # Len(range) + 1
        THEN none
        ELSE [ok |-> TRUE, startRow |-> startRow,
              endRow |-> ParseInt(SubSeq(range, c2, r2 - 1)),
              startCol |-> startCol,
              endCol |-> columnToNumber(SubSeq(range, r1 + 1, c2 - 1))]

\* MockRange.values / formulas with MockExcelEnvironment.validateRangeOperation,
\* lines 1132-1156: what they throw, "" when they return
validateRangeOperation(op) ==
    LET rangeInfo    == parseRange(op.range)
        expectedRows == rangeInfo.endRow - rangeInfo.startRow + 1
        expectedCols == rangeInfo.endCol - rangeInfo.startCol + 1
        dims(r, c)   == ToString(r) \o "x" \o ToString(c)
    IN  IF op.type \notin {"setValue", "setFormula"} THEN ""
        ELSE IF ~rangeInfo.ok \/ ~op.data.isArray THEN ""
        ELSE IF op.data.length # expectedRows \/ op.data.firstLength # expectedCols
        THEN "Array dimension mismatch: Range " \o op.range \o " expects "
                \o dims(expectedRows, expectedCols) \o ", got "
                \o dims(op.data.length, op.data.firstLength)
        ELSE IF ~op.data.firstIsArray
        THEN "1D array detected for range " \o op.range
                \o " - Excel requires 2D arrays"
        ELSE ""

\* the message with which a chunk fails on MockExcelEnvironment, "" when it
\* runs to its end
RECURSIVE mockExcelRun(_)
mockExcelRun(chunk) ==
    IF chunk = << >> THEN ""
    ELSE IF validateRangeOperation(Head(chunk)) # ""
    THEN validateRangeOperation(Head(chunk))
    ELSE mockExcelRun(Tail(chunk))

\* every call pushes to one array that all calls share
OperationsOf_shared(c) == 1

\* line 1375: const operations = [], an array of its own for each call
OperationsOf(c) == c

SimInit ==
    /\ OrchIdle
    /\ PipeIdle
    /\ ExtIdle
    /\ CorrIdle
    /\ LedgerIdle
    /\ SimIdle

\* testCodeInMockEnvironmentSimple is called with a chunk
SimStart(c, chunk) ==
    /\ sims[c].status = "idle"
    /\ sims' = [sims EXCEPT ![c] = [status |-> "running", chunk |-> chunk,
                                     next |-> 1, success |-> FALSE, error |-> ""]]
    /\ operations' = [operations EXCEPT ![OperationsOf(c)] = << >>]
    /\ UNCHANGED << made, orchVars, pipeVars, extVars, corrVars, ledgerVars >>

\* the chunk of call c makes its next property set: the setter pushes the
\* operation and validates; what it throws ends the call in the catch block
SimSet(c) ==
    /\ sims[c].status = "running"
    /\ sims[c].next <= Len(sims[c].chunk)
    /\ LET op == sims[c].chunk[sims[c].next]
       IN  /\ operations' = [operations EXCEPT
                               ![OperationsOf(c)] = Append(@, op)]
           /\ made' = [made EXCEPT ![c] = Append(@, op)]
           /\ sims' = [sims EXCEPT ![c] =
                         IF MockSetError(op) # ""
                         THEN [@ EXCEPT !.status = "returned",
                                        !.error = MockSetError(op)]
                         ELSE [@ EXCEPT !.next = @ + 1]]
    /\ UNCHANGED << orchVars, pipeVars, extVars, corrVars, ledgerVars >>

\* the chunk has run to its end: success
SimReturn(c) ==
    /\ sims[c].status = "running"
    /\ sims[c].next > Len(sims[c].chunk)
    /\ sims' = [sims EXCEPT ![c] = [@ EXCEPT !.status = "returned",
                                               !.success = TRUE]]
    /\ UNCHANGED << operations, made, orchVars, pipeVars, extVars, corrVars, ledgerVars >>

SimNext ==
    \/ \E c \in SimIds, chunk \in SimChunks : SimStart(c, chunk)
    \/ \E c \in SimIds : SimSet(c)
    \/ \E c \in SimIds : SimReturn(c)

SimSpec == SimInit /\ [][SimNext]_vars

(***************************************************************************)
(* Properties of the mock test.                                            *)
(***************************************************************************)

\* C17: a mock test shares no state with another and does not reach the
\* workbook: the operations of every call are exactly the property sets its
\* own chunk has made, however the calls follow each other or overlap, and
\* no real execution is attempted.
C17_SimulationIsolated ==
    /\ \A c \in SimIds :
          sims[c].status # "idle" => operations[OperationsOf(c)] = made[c]
    /\ attempts = << >>

\* one call has returned its operations while another, started on a
\* different chunk, has made a set and is still running
C17_Witness ==
    \E c, d \in SimIds :
        /\ sims[c].status = "returned"
        /\ sims[d].status = "running"
        /\ made[c] # << >>
        /\ made[d] # << >>
        /\ made[c] # made[d]

MaxRecorded == 103

\* Array.prototype.slice(-n)
SliceLast(log, n) == SubSeq(log, Max(Len(log) - n, 0) + 1, Len(log))

\* the first MAX_RECORDS records are kept
KeepRecent_oldest(log) ==
    IF Len(log) > MAX_RECORDS THEN SubSeq(log, 1, MAX_RECORDS) ELSE log

\* lines 1504-1506 and 1521-1523: keep only the recent records
KeepRecent(log) ==
    IF Len(log) > MAX_RECORDS THEN SliceLast(log, MAX_RECORDS) ELSE log

LedgerInit ==
    /\ OrchIdle
    /\ PipeIdle
    /\ ExtIdle
    /\ CorrIdle
    /\ SimIdle
    /\ LedgerIdle

recordFailure ==
    /\ recorded.failures < MaxRecorded
    /\ failureLog' = KeepRecent(Append(failureLog, [id |-> recorded.failures + 1]))
    /\ recorded' = [recorded EXCEPT !.failures = @ + 1]
    /\ UNCHANGED << successLog, orchVars, pipeVars, extVars, corrVars, simVars >>

recordSuccess ==
    /\ recorded.successes < MaxRecorded
    /\ successLog' = KeepRecent(Append(successLog, [id |-> recorded.successes + 1]))
    /\ recorded' = [recorded EXCEPT !.successes = @ + 1]
    /\ UNCHANGED << failureLog, orchVars, pipeVars, extVars, corrVars, simVars >>

LedgerNext == recordFailure \/ recordSuccess

LedgerSpec == LedgerInit /\ [][LedgerNext]_vars

(***************************************************************************)
(* Properties of the ledger.                                               *)
(***************************************************************************)

\* the last Min(n, MAX_RECORDS) of n records, oldest first
MostRecent(n) ==
    [i \in 1..Min(n, MAX_RECORDS) |-> [id |-> n - Min(n, MAX_RECORDS) + i]]

\* C19: after any sequence of records each list holds at most MAX_RECORDS
\* entries, and they are the most recent ones given to it, in the order in
\* which they were given.
C19_LedgerBounded ==
    /\ Len(failureLog) <= MAX_RECORDS
    /\ Len(successLog) <= MAX_RECORDS
    /\ failureLog = MostRecent(recorded.failures)
    /\ successLog = MostRecent(recorded.successes)

\* both lists were given more than they hold: each has evicted
C19_Witness ==
    /\ recorded.failures > MAX_RECORDS
    /\ recorded.successes > MAX_RECORDS
    /\ Len(failureLog) = MAX_RECORDS
    /\ Len(successLog) = MAX_RECORDS

(***************************************************************************)
(* The ledger and the decisions of a call.                                 *)
(***************************************************************************)

\* C20: the ledger never decides: whatever the two lists hold, every step of
\* a call moves its position, its text, its answer and its attempts as the
\* position, the text and the outcome of the step alone determine.
C20_LedgerNeverDecides ==
    [][ LET last == attempts'[Len(attempts')]
            oneMore ==
                /\ Len(attempts') = Len(attempts) + 1
                /\ SubSeq(attempts', 1, Len(attempts)) = attempts
        IN  /\ version' = version
            /\ original' = original
            /\ CASE ppc = "validate" /\ version = "first" ->
                      /\ ppc' = "mock"
                      /\ code' = IF ~IsValid(code) \/ HasFixableIssues(code)
                                 THEN KeptAfterCorrection(code)
                                 ELSE code
                      /\ UNCHANGED << mockError, answer, attempts >>
                 [] ppc = "validate" /\ version = "second" ->
                      /\ ppc' = IF LegacyIsValid(code) THEN "scriptlab" ELSE "done"
                      /\ answer' = IF LegacyIsValid(code) THEN answer
                                   ELSE "Code validation failed"
                      /\ UNCHANGED << code, mockError, attempts >>
                 [] ppc = "mock" ->
                      /\ mockError' \in MockResults(code)
                      /\ ppc' = IF Includes(mockError', "dimension")
                                THEN "retest" ELSE "scriptlab"
                      /\ UNCHANGED << code, answer, attempts >>
                 [] ppc = "retest" ->
                      /\ ppc' = "scriptlab"
                      /\ \E e \in MockResults(autoCorrectArrayDimensions(code)) :
                            code' = IF e = "" THEN autoCorrectArrayDimensions(code)
                                    ELSE code
                      /\ UNCHANGED << mockError, answer, attempts >>
                 [] ppc = "scriptlab" ->
                      /\ oneMore
                      /\ last.by = "scriptlab"
                      /\ last.text = code
                      /\ last.script = WrapInExcelRun(code)
                      /\ ppc' = IF last.outcome = "success" THEN "done" ELSE "direct"
                      /\ answer' = IF last.outcome = "success" THEN "executed"
                                   ELSE answer
                      /\ UNCHANGED << code, mockError >>
                 [] ppc = "direct" ->
                      /\ oneMore
                      /\ last.by = "direct"
                      /\ last.text = FinalCode(version, code)
                      /\ last.script = WrapInExcelRun(FinalCode(version, code))
                      /\ ppc' = "done"
                      /\ answer' = IF last.outcome = "success" THEN "created"
                                   ELSE "Direct execution failed"
                      /\ UNCHANGED << code, mockError >>
                 [] OTHER -> FALSE ]_vars

\* a call that started with both lists full has taken the decision that
\* follows a mock test naming a dimension
C20_Witness ==
    /\ ppc = "retest"
    /\ failures = MAX_RECORDS
    /\ successes = MAX_RECORDS

(***************************************************************************)
(* SimpleScriptLabEngine.executeCode and ScriptLabEngine.executeCode       *)
(* (scriptlab/SimpleEngine.ts, scriptlab/index.ts): the two methods have   *)
(* the same body.  A call builds an iframe, keeps it in                    *)
(* this.executionFrame, listens to the window's messages and arms a timer. *)
(***************************************************************************)

\* what the script of createExecutionHtml posts to its parent
FrameMessages == { "execution-result", "execution-error" }

\* a window other than the engine's iframes
ForeignWindow == 0

\* cleanupExecutionFrame: the iframe this.executionFrame names leaves the
\* document and the field becomes null
cleanupExecutionFrame(st) ==
    [st EXCEPT !.attached = @ \ {st.executionFrame}, !.executionFrame = 0]

\* resolve(...): a promise is settled once, later calls of resolve are ignored
resolve(st, h, kind, origin) ==
    IF st.calls[h].status = "pending"
    THEN [st EXCEPT !.calls[h].status = "settled", !.calls[h].kind = kind,
                    !.calls[h].from = origin]
    ELSE st

\* messageHandler of call h on an event with source origin: it acts when the
\* source is the window of the iframe this.executionFrame names now
messageHandler(st, h, origin, type) ==
    IF st.executionFrame # 0 /\ origin = st.executionFrame
    THEN resolve(cleanupExecutionFrame(
                     [st EXCEPT !.listeners = SelectSeq(@, LAMBDA l : l # h)]),
                 h, type, origin)
    ELSE st

\* wrappedHandler of call h: clearTimeout(timeoutId), then originalHandler
wrappedHandler(st, h, origin, type) ==
    messageHandler([st EXCEPT !.calls[h].timer = FALSE], h, origin, type)

\* the window dispatches one message event to the listeners registered when
\* the dispatch starts, in order of registration
RECURSIVE Dispatch(_, _, _, _)
Dispatch(st, registered, origin, type) ==
    IF registered = << >>
    THEN st
    ELSE Dispatch(wrappedHandler(st, Head(registered), origin, type),
                  Tail(registered), origin, type)

EngineState ==
    [executionFrame |-> executionFrame, calls |-> calls,
     listeners |-> listeners, attached |-> attached]

EngineBecomes(st) ==
    /\ executionFrame' = st.executionFrame
    /\ calls' = st.calls
    /\ listeners' = st.listeners
    /\ attached' = st.attached
    /\ UNCHANGED << orchVars, pipeVars, corrVars, ledgerVars, simVars, seqVars >>

EngineInit == OrchIdle /\ PipeIdle /\ UnitIdle

\* executeCode: the promise executor runs to its end, the new iframe
\* replaces this.executionFrame whatever it named
executeCode(c) ==
    /\ calls[c].status = "idle"
    /\ \A d \in CallIds : d < c => calls[d].status # "idle"
    /\ EngineBecomes([executionFrame |-> c,
                      calls |-> [calls EXCEPT ![c].status = "pending",
                                              ![c].timer = TRUE],
                      listeners |-> Append(listeners, c),
                      attached |-> attached \cup {c}])

\* the script of an iframe that is in the document posts its message
FramePosts(f, type) ==
    /\ f \in attached
    /\ EngineBecomes(Dispatch(EngineState, listeners, f, type))

\* some other window posts a message to the task pane's window
ForeignMessage ==
    /\ listeners # << >>
    /\ \E st \in {Dispatch(EngineState, listeners, ForeignWindow, "other")} :
          /\ st # EngineState
          /\ EngineBecomes(st)

\* the setTimeout callback of call c: removeEventListener is given
\* messageHandler, which is no longer registered, so the listener stays
TimerFires(c) ==
    /\ calls[c].timer
    /\ EngineBecomes(resolve(cleanupExecutionFrame(
                                 [EngineState EXCEPT !.calls[c].timer = FALSE]),
                             c, "timeout", ForeignWindow))

EngineNext ==
    \/ \E c \in CallIds : executeCode(c)
    \/ \E f \in CallIds, type \in FrameMessages : FramePosts(f, type)
    \/ ForeignMessage
    \/ \E c \in CallIds : TimerFires(c)

EngineSpec == EngineInit /\ [][EngineNext]_vars

\* an armed timer fires when its delay has elapsed; nothing obliges the
\* script of an iframe to post a message
EngineFairSpec == EngineSpec /\ \A c \in CallIds : WF_vars(TimerFires(c))

\* C21: every executeCode call eventually resolves (with the frame's result,
\* its error, or the timeout failure), whatever other messages arrive and
\* whatever calls were made before on the same engine.
C21_EveryCallResolves ==
    \A c \in CallIds : (calls[c].status = "pending") ~> (calls[c].status = "settled")

(***************************************************************************)
(* Further properties of the orchestrator.                                 *)
(***************************************************************************)

\* a counter of the breaker is at its bound
BoundReached ==
    \/ consecutiveErrors >= maxConsecutiveErrors
    \/ totalRetries >= maxTotalRetries

\* the loop is between the breaker check of an iteration and the end of the
\* iteration's real execution
TowardsExecution == pc \in { "snapshot", "request", "exec" }

C23_UpdatedChunkRunsNext ==
    updatedPending => pc # "request"

(***************************************************************************)
(* Further properties of executeExcelScriptCode.                           *)
(***************************************************************************)

\* the message is one the setters of the mock range throw for a one-level
\* array (createMockWorksheet, values and formulas)
OneLevelArrayError(e) ==
    \/ StartsWith(e, "1D array detected for range ")
    \/ StartsWith(e, "1D formula array detected for range ")

\* C24: when the mock test fails because a one-level array was assigned to
\* values or formulas, the call corrects the dimensions and tests again
\* before it goes on to the real execution.
C24_OneLevelFailureRetested ==
    [][ (ppc = "mock" /\ OneLevelArrayError(mockError')) => ppc' = "retest" ]_vars

\* C25: a success record is added to the ledger only for a text whose real
\* execution has succeeded.
C25_SuccessRecordedAfterRealSuccess ==
    [][ successes' # successes =>
            /\ attempts' # << >>
            /\ attempts'[Len(attempts')].outcome = "success" ]_vars

\* C26: whether a failed execution is classified as persistent depends only
\* on the error that was raised: the classification the loop has just made of
\* the failure of the current chunk is the one String(error) gets by itself.
C26_ClassifiedByRaisedError ==
    pc \in { "persistDelay", "backoff" } =>
        \E error \in AllErrors :
            /\ execResult.error_message = ErrorMessage[error, currentChunk.code]
            /\ afterPersistent = isPersistentError(error)

\* C27: a stop() made while startIncrementalBuild is still initialising the
\* session is not lost: the loop is then entered, if at all, with the flag
\* off, so that it ends at its first check without requesting a chunk.
C27_EarlyStopIsKept ==
    [][ (pc = "init" /\ stopCalled /\ pc' = "top") => ~isExecuting' ]_vars

\* no iteration of the loop has got a chunk or an answer that ends the
\* session: every iteration made so far has thrown
EveryIterationThrew ==
    /\ currentChunk = NoChunk
    /\ endedBy \notin { "completed", "nochunk" }

\* C28: an exception thrown inside an iteration (the workbook snapshot or
\* the next-chunk request failing) adds one to both counters, and while every
\* iteration throws there are at most maxConsecutiveErrors of them, the last
\* of which ends the session with false; the session does end.
C28_ThrowingIterationsEndSession ==
    /\ [][ (pc' # pc /\ (pc' = "catchDelay" \/ (pc' = "done" /\ endedBy' = "catch"))) =>
               /\ pc \in { "snapshot", "request" }
               /\ consecutiveErrors' = consecutiveErrors + 1
               /\ totalRetries' = totalRetries + 1 ]_vars
    /\ [](EveryIterationThrew =>
               /\ consecutiveErrors = totalRetries
               /\ consecutiveErrors <= maxConsecutiveErrors
               /\ (consecutiveErrors = maxConsecutiveErrors =>
                       pc = "done" /\ result = FALSE))
    /\ ([]EveryIterationThrew) => <>(pc = "done" /\ result = FALSE)

\* the third iteration in a row has thrown and the loop has returned false
C28_Witness ==
    /\ pc = "done"
    /\ endedBy = "catch"
    /\ currentChunk = NoChunk
    /\ consecutiveErrors = maxConsecutiveErrors
    /\ result = FALSE

(***************************************************************************)
(* SequentialExecutionEngine.executeOperations and executeOperation        *)
(* (utils/SequentialExecutionEngine.ts).  An operation is named by its     *)
(* index in the list the call is given.                                    *)
(***************************************************************************)
\* this.config.maxRetries as the constructor sets it
maxRetries == 3

\* the longest list of operations a call is given
MaxOps == 2

\* the largest stage an operation has
MaxStage == 2

\* an ExecutionOperation: its stage and whether it is optional.  No stage
\* below 1 comes out of parseCodeIntoOperations; a caller can pass one.
Operations == [stage : 0..MaxStage, optional : BOOLEAN]

SeqInputs == UNION { [1..n -> Operations] : n \in 0..MaxOps }

\* getMaxStage: Math.max(...operations.map(op => op.stage), 1)
getMaxStage(ops) == Greatest({ ops[i].stage : i \in 1..Len(ops) } \cup {1})

\* operations.filter(op => op.stage === stage), as indices in the order of ops
StageOperations(ops, n) ==
    Ascending({ i \in 1..Len(ops) : ops[i].stage = n })

\* while (retryCount <= this.config.maxRetries)
RetryAllowed_oneMore(n) == n <= maxRetries + 1
RetryAllowed(n) == n <= maxRetries

\* if (!result.success && !this.config.continueOnError && !operation.optional)
StopsAfter(success, op) == ~success /\ ~continueOnError /\ ~op.optional

\* the last call of runOperationCode has settled with the outcome given
Settled(outcome) == [runs EXCEPT ![Len(runs)].outcome = outcome]

SeqUnchanged == UNCHANGED << orchVars, pipeVars, corrVars, ledgerVars, simVars, engineVars >>

\* executeOperations is called on an engine with continueOnError as the
\* constructor was given it
SeqInit ==
    /\ OrchIdle /\ PipeIdle /\ CorrIdle /\ LedgerIdle /\ SimIdle /\ EngineIdle
    /\ continueOnError \in BOOLEAN
    /\ input \in SeqInputs
    /\ spc = "stage"
    /\ stage = 1
    /\ stageOperations = << >>
    /\ operation = 0
    /\ retryCount = 0
    /\ results = << >>
    /\ runs = << >>
    /\ abandoned = {}

\* for (let stage = 1; stage <= maxStage; stage++): the condition and the
\* filter, or the return after the last stage
StageLoop ==
    /\ spc = "stage"
    /\ IF stage <= getMaxStage(input)
       THEN /\ stageOperations' = StageOperations(input, stage)
            /\ spc' = "operation"
       ELSE /\ spc' = "done"
            /\ UNCHANGED stageOperations
    /\ UNCHANGED << continueOnError, input, stage, operation, retryCount, results,
                    runs, abandoned >>
    /\ SeqUnchanged

\* for (const operation of stageOperations): executeOperation is called for
\* the next one; after the last, validateStage and stage++
OperationLoop ==
    /\ spc = "operation"
    /\ IF stageOperations # << >>
       THEN /\ operation' = Head(stageOperations)
            /\ stageOperations' = Tail(stageOperations)
            /\ retryCount' = 0
            /\ spc' = "retry"
            /\ UNCHANGED stage
       ELSE /\ stage' = stage + 1
            /\ spc' = "stage"
            /\ UNCHANGED << stageOperations, operation, retryCount >>
    /\ UNCHANGED << continueOnError, input, results, runs, abandoned >>
    /\ SeqUnchanged

\* the while condition of executeOperation: runOperationCode is called, or
\* the failure is returned, pushed, and the loop of executeOperations
\* decides whether to go on
RetryLoop ==
    /\ spc = "retry"
    /\ IF RetryAllowed(retryCount)
       THEN /\ runs' = Append(runs, [op |-> operation, outcome |-> "running"])
            /\ spc' = "run"
            /\ UNCHANGED results
       ELSE /\ results' = Append(results, [operationId |-> operation,
                                           success |-> FALSE,
                                           retryCount |-> retryCount])
            /\ spc' = IF StopsAfter(FALSE, input[operation]) THEN "done"
                      ELSE "operation"
            /\ UNCHANGED runs
    /\ UNCHANGED << continueOnError, input, stage, stageOperations, operation,
                    retryCount, abandoned >>
    /\ SeqUnchanged

\* the eval resolves before the timeout: the success is returned and pushed
RunResolves ==
    /\ spc = "run"
    /\ runs' = Settled("success")
    /\ results' = Append(results, [operationId |-> operation, success |-> TRUE,
                                   retryCount |-> retryCount])
    /\ spc' = IF StopsAfter(TRUE, input[operation]) THEN "done" ELSE "operation"
    /\ UNCHANGED << continueOnError, input, stage, stageOperations, operation,
                    retryCount, abandoned >>
    /\ SeqUnchanged

\* the catch block of executeOperation: retryCount++, and the correction and
\* the delay when another attempt is to follow
Caught ==
    /\ retryCount' = retryCount + 1
    /\ spc' = IF retryCount + 1 <= maxRetries THEN "delay" ELSE "retry"
    /\ UNCHANGED << continueOnError, input, stage, stageOperations, operation,
                    results >>
    /\ SeqUnchanged

\* the eval rejects before the timeout
RunRejects ==
    /\ spc = "run"
    /\ runs' = Settled("failed")
    /\ UNCHANGED abandoned
    /\ Caught

\* the timer of runOperationCode rejects first; the eval is not cancelled
RunTimesOut ==
    /\ spc = "run"
    /\ runs' = Settled("failed")
    /\ abandoned' = abandoned \cup {operation}
    /\ Caught

\* the delay before the next attempt is over
RetryDelayDone ==
    /\ spc = "delay"
    /\ spc' = "retry"
    /\ UNCHANGED << continueOnError, input, stage, stageOperations, operation,
                    retryCount, results, runs, abandoned >>
    /\ SeqUnchanged

\* the evals of an operation that lost their race have settled
AbandonedRunSettles(o) ==
    /\ o \in abandoned
    /\ abandoned' = abandoned \ {o}
    /\ UNCHANGED << continueOnError, input, spc, stage, stageOperations, operation,
                    retryCount, results, runs >>
    /\ SeqUnchanged

SeqNext ==
    \/ StageLoop
    \/ OperationLoop
    \/ RetryLoop
    \/ RunResolves
    \/ RunRejects
    \/ RunTimesOut
    \/ RetryDelayDone
    \/ \E o \in 1..MaxOps : AbandonedRunSettles(o)

SeqSpec == SeqInit /\ [][SeqNext]_vars

\* the calls of runOperationCode made for operation o, as places in runs
RunsOf(o) == { k \in 1..Len(runs) : runs[k].op = o }

\* the results pushed for operation o, as places in results
ResultsOf(o) == { k \in 1..Len(results) : results[k].operationId = o }

\* executeOperation has returned for operation o
Returned(o) ==
    /\ RunsOf(o) # {}
    /\ o # operation \/ spc \in { "operation", "stage", "done" }

\* C29: an operation is run at most maxRetries + 1 times, no run follows its
\* first success, and it gets exactly one result, whose retryCount is the
\* number of its failed runs.
C29_BoundedRetries ==
    \A o \in 1..Len(input) :
        /\ Cardinality(RunsOf(o)) <= maxRetries + 1
        /\ \A j, k \in RunsOf(o) : j < k => runs[j].outcome = "failed"
        /\ Cardinality(ResultsOf(o)) = (IF Returned(o) THEN 1 ELSE 0)
        /\ \A k \in ResultsOf(o) :
              /\ results[k].retryCount =
                     Cardinality({ j \in RunsOf(o) : runs[j].outcome = "failed" })
              /\ results[k].success =
                     (\E j \in RunsOf(o) : runs[j].outcome = "success")

\* an operation has failed maxRetries + 1 times and has its result, another
\* one has succeeded after a failure
C29_Witness ==
    /\ \E k \in 1..Len(results) :
          ~results[k].success /\ results[k].retryCount = maxRetries + 1
    /\ \E k \in 1..Len(results) :
          results[k].success /\ results[k].retryCount = 1

\* the operations a stage of the loop can take: those of stage 1 and above
Eligible == { i \in 1..Len(input) : input[i].stage >= 1 }

\* the place of operation i among the eligible ones sorted by stage and then
\* by their order in the input
Rank(i) ==
    1 + Cardinality({ j \in Eligible :
                        \/ input[j].stage < input[i].stage
                        \/ input[j].stage = input[i].stage /\ j < i })

\* operation o has its result and it is a failure
OperationFailed(o) == \E k \in ResultsOf(o) : ~results[k].success

\* the runs follow the sorted order: those of one operation are together,
\* and the operations run so far are a prefix of the sorted list
RunsInSortedOrder ==
    /\ \A k \in 1..Len(runs) : runs[k].op \in Eligible
    /\ runs # << >> => Rank(runs[1].op) = 1
    /\ \A k \in 1..(Len(runs) - 1) :
          Rank(runs[k + 1].op) - Rank(runs[k].op) \in {0, 1}

\* where the prefix ends when the call has returned
PrefixEnd ==
    spc = "done" =>
        LET ranSoFar == { runs[k].op : k \in 1..Len(runs) }
            critical == { o \in ranSoFar : OperationFailed(o) /\ ~input[o].optional }
        IN  IF continueOnError
            THEN ranSoFar = Eligible
            ELSE /\ \A o \in critical : \A q \in ranSoFar : Rank(q) <= Rank(o)
                 /\ critical = {} => ranSoFar = Eligible

\* no run of an operation is still under way when a run of another one is
NoOverlap == spc = "run" => abandoned \subseteq {operation}

\* C30: the operations are run in the order of the input sorted by stage and
\* then by position, a prefix of it; each operation has finished all its runs
\* before the next one starts; without continueOnError the prefix ends at the
\* first failed operation that is not optional, otherwise it is the whole
\* list of the operations of stage 1 and above.
C30_SequentialPrefix ==
    /\ RunsInSortedOrder
    /\ PrefixEnd
    /\ NoOverlap

====
